---- MODULE Spec2Model ----
(***************************************************************************)
(* A model of scripts/auto_data_analyzer.py (class AutoDataAnalyzer): the  *)
(* column type detector, and the five-stage prepare_for_modeling pipeline  *)
(* with the analyzer's registries.                                         *)
(*                                                                         *)
(* Cells.  A cell is a record [k, n]: k is the kind of value, n its        *)
(* payload.                                                                *)
(*   "null"    NaN / NaT                                                   *)
(*   "num"     a number held in an int64/float64 column, n its value       *)
(*   "date"    an ISO date string "YYYY-MM-DD", n = days since 1970-01-01  *)
(*   "baddate" a string of the shape dddd-dd-dd that is no calendar date   *)
(*             ("2020-13-45"), n tells such strings apart                  *)
(*   "numstr"  a numeric string that is not a date ("10001"), n its number *)
(*   "word"    any other string ("North"), n tells words apart             *)
(*   "ts"      a pandas Timestamp, n = days since 1970-01-01               *)
(*   "cyc"     a sine/cosine feature, n = 100*period + 2*phase + (1 if cos)*)
(*   "scaled"  a standardised number, n = N*x - sum(x) (N rows): the       *)
(*             numerator of x - mean; the division by N*std is left out    *)
(*                                                                         *)
(* Library behaviour the code relies on (pandas / scikit-learn):           *)
(*   pd.to_datetime(.., errors='raise') accepts numbers (they are read as  *)
(*   nanoseconds since the epoch: pd.to_datetime(pd.Series([25, 30]))      *)
(*   gives 1970-01-01 00:00:00.000000025, ...), date strings and           *)
(*   Timestamps; it raises on every other string.                          *)
(*   pd.to_numeric accepts numbers and numeric strings; with               *)
(*   errors='coerce' every other value becomes NaN.                        *)
(***************************************************************************)
EXTENDS Integers, Sequences, FiniteSets, TLC

VARIABLES
    caller_df,           \* the caller's table, handed to prepare_for_modeling
    encoders,            \* self.encoders
    scalers,             \* self.scalers
    imputers,            \* self.imputers
    column_info,         \* self.column_info
    transformation_log,  \* self.transformation_log
    args,                \* the arguments of the last prepare_for_modeling call
    result,              \* what that call returned
    consulted,           \* the detector results the stages of that call obtained
    heap,                \* the table objects of that call, in order of creation
    calls,               \* the prepare_for_modeling calls made on the instance
    held,                \* the dicts those calls returned, kept by the caller
    report,              \* what the last analyze_dataset call returned
    preprocessor,        \* a DataPreprocessor: scalers, encoders, imputers, feature_names
    pre_result,          \* what the last call on the preprocessor returned
    forecaster,          \* a SegmentedForecaster, whose analyzer is the analyzer above
    fc_result,           \* what the last call on the forecaster returned
    col,                 \* detector harness: the column handed to _analyze_column
    analysis,            \* detector harness: what _analyze_column returned
    again                \* detector harness: what a second call on the column returned

analyzer == <<encoders, scalers, imputers, column_info, transformation_log>>
pipeline == <<caller_df, analyzer, args, result, consulted, heap, calls, held>>
detector == <<col, analysis, again>>
others == <<report, preprocessor, pre_result, forecaster, fc_result>>
vars == <<pipeline, detector, others>>

(***************************************************************************)
(* Bounds of the model.                                                    *)
(***************************************************************************)
NRows == 3         \* pipeline: rows of the small tables
MaxDistinct == 2   \* pipeline: distinct cells of a generated column, 1..MaxDistinct
NullPositions == 2 \* pipeline: a generated column has no null, or one at row 1..NullPositions
MaxLen == 3        \* detector: every column of length 0..MaxLen over the cell pools
MaxK == 52         \* detector: generated columns with 1..MaxK distinct words
MaxReps == 2       \* detector: each distinct word repeated 1..MaxReps times
MaxNumStr == 9     \* detector: generated columns with 0..MaxNumStr numeric strings
MaxJunk == 2       \* detector: ... followed by 0..MaxJunk words
MaxCalls == 2      \* call sequences: prepare_for_modeling calls on one instance

(***************************************************************************)
(* Program constants.                                                      *)
(***************************************************************************)
SampleCap == 100       \* _is_datetime_column: series.head(min(100, len(series)))
OneHotMax == 10        \* unique_count <= 10: one-hot
LabelMax == 50         \* unique_count <= 50: label

Null == [k |-> "null", n |-> 0]
Num(x) == [k |-> "num", n |-> x]
DateStr(d) == [k |-> "date", n |-> d]
BadDate(i) == [k |-> "baddate", n |-> i]
NumStr(x) == [k |-> "numstr", n |-> x]
Word(i) == [k |-> "word", n |-> i]
Ts(d) == [k |-> "ts", n |-> d]
Bool(b) == [k |-> "bool", n |-> b]      \* True is 1, False is 0

\* A column (pandas Series): its name, its storage type and its cells.
Column(name, dtype, vals) == [name |-> name, dtype |-> dtype, vals |-> vals]

(***************************************************************************)
(* Series helpers.                                                         *)
(***************************************************************************)

IsNull(v) == v.k = "null"
NotNull(v) == v.k # "null"

\* series.dropna()
dropna(vals) == SelectSeq(vals, NotNull)

\* series.isnull().sum()
null_count(vals) == Len(vals) - Len(dropna(vals))

\* series.unique() without the nulls, as a set
distinct(vals) == {vals[i] : i \in DOMAIN vals} \ {Null}

\* series.nunique()
nunique(vals) == Cardinality(distinct(vals))

\* series.head(n)
head(vals, n) == SubSeq(vals, 1, IF n < Len(vals) THEN n ELSE Len(vals))

Min(a, b) == IF a < b THEN a ELSE b

\* a cell holding a number: an input number, or a float a stage produced
IsNumber(v) == v.k \in {"num", "cyc", "scaled"}

\* pd.to_datetime(value, errors='raise') does not raise
to_datetime_ok(v) == IsNumber(v) \/ v.k \in {"date", "ts", "null"}

\* the value pd.to_datetime gives.  A number is nanoseconds since the epoch;
\* the input numbers of the model are small and not negative, so they fall
\* on day 0 (1970-01-01).  Stage 2 is the only caller, and it runs before
\* any "cyc" or "scaled" cell exists.
to_datetime(v) ==
    CASE v.k = "num" -> Ts(0)
      [] v.k = "date" -> Ts(v.n)
      [] v.k = "ts" -> v
      [] OTHER -> Null

\* str(value) starts with one of the four date patterns of _is_datetime_column
matches_date_pattern(v) == v.k \in {"date", "baddate", "ts"}

\* pd.to_numeric(value, errors='raise') does not raise
to_numeric_ok(v) == IsNumber(v) \/ v.k \in {"numstr", "bool", "null"}

AllOf(vals, P(_)) == \A i \in DOMAIN vals : P(vals[i])
AnyOf(vals, P(_)) == \E i \in DOMAIN vals : P(vals[i])
CountOf(vals, P(_)) == Cardinality({i \in DOMAIN vals : P(vals[i])})

(***************************************************************************)
(* The column type detector.                                               *)
(***************************************************************************)
\* _is_datetime_column(series): series is the non-null part of the column
is_datetime_column(vals) ==
    LET sample == head(vals, Min(SampleCap, Len(vals)))
    IN  IF AllOf(sample, to_datetime_ok)
        THEN TRUE
        ELSE AnyOf(sample, matches_date_pattern)

\* _is_numeric_column(series): numeric_count / len(series) > 0.8
is_numeric_column(vals) ==
    IF AllOf(vals, to_numeric_ok)
    THEN TRUE
    ELSE 10 * CountOf(vals, to_numeric_ok) > 8 * Len(vals)

\* _is_categorical_column(series): nunique / len < 0.5 or dtype == 'object'
is_categorical_column(vals, dtype) ==
    2 * nunique(vals) < Len(vals) \/ dtype = "object"

\* slip: < in place of <=
encoding_for_strict(unique_count) ==
    IF unique_count < OneHotMax THEN "one_hot_encoding"
    ELSE IF unique_count < LabelMax THEN "label_encoding"
    ELSE "target_encoding"

\* the encoding strategy of the categorical branch
encoding_for(unique_count) ==
    IF unique_count <= OneHotMax THEN "one_hot_encoding"
    ELSE IF unique_count <= LabelMax THEN "label_encoding"
    ELSE "target_encoding"

\* what _analyze_column hands back: status "ok" with the analysis, or
\* status "raise" with the exception that escapes it
Analysis(status, c, type, enc, needed) ==
    [status |-> status,
     column_name |-> c.name,
     detected_type |-> type,
     original_dtype |-> c.dtype,
     null_count |-> null_count(c.vals),
     unique_count |-> nunique(c.vals),
     encoding_recommendation |-> enc,
     preprocessing_needed |-> needed]

Raised(error) == [status |-> "raise", error |-> error]

\* the tag list of the numeric and categorical branches
WithImputation(c, first, imputeFirst) ==
    IF null_count(c.vals) > 0
    THEN (IF imputeFirst THEN <<"missing_value_imputation", first>>
                         ELSE <<first, "missing_value_imputation">>)
    ELSE <<first>>

\* _analyze_column(series, column_name)
analyze_column(c) ==
    LET non_null == dropna(c.vals)
    IN  IF Len(c.vals) = 0
        THEN \* line 61: series.nunique() / len(series), int / int
             Raised("ZeroDivisionError")
        ELSE IF Len(non_null) = 0
        THEN Analysis("ok", c, "empty", "None", <<>>)
        ELSE IF is_datetime_column(non_null)
        THEN IF AllOf(non_null, to_datetime_ok)
             THEN Analysis("ok", c, "datetime", "None",
                           <<"datetime_features_extraction">>)
             ELSE \* line 78: pd.to_datetime(non_null_series) raises again
                  Raised("ValueError")
        ELSE IF is_numeric_column(non_null)
        THEN Analysis("ok", c, "numeric", "None",
                      WithImputation(c, "scaling_normalization", TRUE))
        ELSE IF is_categorical_column(non_null, c.dtype)
        THEN Analysis("ok", c, "categorical", encoding_for(nunique(c.vals)),
                      WithImputation(c, "categorical_encoding", FALSE))
        ELSE Analysis("ok", c, "text", "None", <<"text_processing">>)

(***************************************************************************)
(* Tables (pandas DataFrame): a sequence of columns of equal length, in    *)
(* column order.                                                           *)
(***************************************************************************)
ColNames(t) == [i \in DOMAIN t |-> t[i].name]

HasCol(t, name) == \E i \in DOMAIN t : t[i].name = name

\* df[name]
GetCol(t, name) == t[CHOOSE i \in DOMAIN t : t[i].name = name]

\* df[name] = values: in place when the column exists, appended otherwise
SetCol(t, c) ==
    IF HasCol(t, c.name)
    THEN [i \in DOMAIN t |-> IF t[i].name = c.name THEN c ELSE t[i]]
    ELSE Append(t, c)

\* slip: the result of drop() is not assigned, the column stays
DropColKept(t, name) == t

\* df.drop(columns=[name])
DropCol(t, name) == SelectSeq(t, LAMBDA c : c.name # name)

NRowsOf(t) == IF Len(t) = 0 THEN 0 ELSE Len(t[1].vals)

\* the order of strings: digits sort before letters, so numeric strings
\* ("10001") come before date-shaped strings ("2020-13-45" before the real
\* dates of the model, which are later than 2020) and those before words;
\* numbers, and strings of one kind, sort by payload
KindRank(v) ==
    CASE IsNumber(v) -> 0
      [] v.k = "numstr" -> 1
      [] v.k = "baddate" -> 2
      [] v.k = "date" -> 3
      [] v.k = "ts" -> 4
      [] v.k = "word" -> 5
      [] OTHER -> 6      \* NaN sorts last

Less(a, b) ==
    \/ KindRank(a) < KindRank(b)
    \/ KindRank(a) = KindRank(b) /\ a.n < b.n

\* sorted(set of cells): np.unique / encoder.categories_
RECURSIVE SortedSeq(_)
SortedSeq(S) ==
    IF S = {} THEN <<>>
    ELSE LET m == CHOOSE x \in S : \A y \in S : x = y \/ Less(x, y)
         IN  <<m>> \o SortedSeq(S \ {m})

\* position of a cell in a sequence without repetitions
IndexOf(s, v) == CHOOSE i \in DOMAIN s : s[i] = v

(***************************************************************************)
(* The analyzer's registries map column names to fitted transformers.      *)
(***************************************************************************)
EmptyRegistry == [x \in {} |-> [kind |-> "none", params |-> <<>>, call |-> 0]]

\* slip: a new dict for every fitted transformer
PutFresh(reg, key, val) == [x \in {key} |-> val]

\* registry[key] = val
Put(reg, key, val) ==
    [x \in DOMAIN reg \cup {key} |-> IF x = key THEN val ELSE reg[x]]

Fitted(kind, params, call) == [kind |-> kind, params |-> params, call |-> call]

\* one entry of the preprocessing_steps log
Step(stage, kind, column, count) ==
    [stage |-> stage, kind |-> kind, column |-> column, count |-> count]

(***************************************************************************)
(* The state of one prepare_for_modeling call.  h is the object store of   *)
(* the tables alive in the call (h[1] is the caller's table), r the table  *)
(* the next stage receives.  seen records every detector result a stage    *)
(* obtained: <<stage, column, detected type>>.                             *)
(***************************************************************************)
CallState(status, h, r, steps, enc, scal, imp, seen) ==
    [status |-> status, h |-> h, r |-> r, steps |-> steps,
     enc |-> enc, scal |-> scal, imp |-> imp, seen |-> seen]

RaiseIn(st, error) == [st EXCEPT !.status = error]

\* slip: the "copy" is the same table object
DfCopyAlias(h, r) == [h |-> h, r |-> r]

\* df.copy(): a new table object with the same contents
DfCopy(h, r) == [h |-> Append(h, h[r]), r |-> Len(h) + 1]

(***************************************************************************)
(* Stage 1: _handle_missing_values.                                        *)
(***************************************************************************)
RECURSIVE SortedNums(_)
\* the payloads of a sequence of cells in ascending order, repetitions kept
SortedNums(vals) ==
    IF Len(vals) = 0 THEN <<>>
    ELSE LET m == CHOOSE i \in DOMAIN vals : \A j \in DOMAIN vals : vals[i].n <= vals[j].n
         IN  <<vals[m].n>> \o
             SortedNums([j \in 1..(Len(vals) - 1) |-> IF j < m THEN vals[j] ELSE vals[j + 1]])

\* np.median of the non-null cells (the numbers of the model are even, so
\* the mean of the two middle ones is a whole number)
Median(vals) ==
    LET s == SortedNums(dropna(vals))
        n == Len(s)
    IN  IF n % 2 = 1 THEN s[(n + 1) \div 2]
        ELSE (s[n \div 2] + s[n \div 2 + 1]) \div 2

\* SimpleImputer(strategy='most_frequent'): the most frequent non-null cell,
\* the smallest one when several are as frequent
MostFrequent(vals) ==
    LET cnt(v) == Cardinality({i \in DOMAIN vals : vals[i] = v})
        best == {v \in distinct(vals) : \A w \in distinct(vals) : cnt(w) <= cnt(v)}
    IN  CHOOSE v \in best : \A w \in best : v = w \/ Less(v, w)

\* the float a number or numeric string converts to
AsFloat(v) == IF v.k = "null" THEN v ELSE Num(v.n)

\* SimpleImputer(strategy='median').fit_transform(df[[column]]).flatten()
ImputeMedian(vals) ==
    LET med == Median(vals)
    IN  [i \in DOMAIN vals |-> IF IsNull(vals[i]) THEN Num(med) ELSE AsFloat(vals[i])]

\* slip: SimpleImputer(missing_values=None), which takes no NaN for missing
ImputeMostFrequentOfNone(vals) == vals

\* SimpleImputer(strategy='most_frequent').fit_transform(df[[column]]).flatten()
ImputeMostFrequent(vals) ==
    LET top == MostFrequent(vals)
    IN  [i \in DOMAIN vals |-> IF IsNull(vals[i]) THEN top ELSE vals[i]]

\* series.fillna(method='ffill'): a null takes the nearest preceding
\* non-null cell, and stays null when there is none
ffill(vals) ==
    [i \in DOMAIN vals |->
        IF NotNull(vals[i]) THEN vals[i]
        ELSE LET before == {j \in 1..(i - 1) : NotNull(vals[j])}
             IN  IF before = {} THEN Null
                 ELSE vals[CHOOSE j \in before : \A l \in before : l <= j]]

\* one iteration of "for column in df.columns" of _handle_missing_values:
\* df is the stage's argument, p the copy it fills in
missing_column(st, df, p, name, call) ==
    LET c == GetCol(st.h[df], name)
        pc == GetCol(st.h[p], name)
        info == analyze_column(c)
        type == info.detected_type
        st1 == [st EXCEPT !.seen = Append(@, <<1, name, type>>)]
    IN  IF ~AnyOf(c.vals, IsNull) THEN st
        ELSE IF info.status = "raise" THEN RaiseIn(st, info.error)
        ELSE IF type = "numeric"
        THEN IF ~AllOf(pc.vals, to_numeric_ok)
             THEN \* "Cannot use median strategy with non-numeric data"
                  RaiseIn(st1, "ValueError")
             ELSE [st1 EXCEPT
                     !.h[p] = SetCol(@, Column(name, "float64", ImputeMedian(pc.vals))),
                     !.imp = Put(@, name, Fitted("median", <<Median(pc.vals)>>, call)),
                     !.steps = Append(@, Step(1, "median", name, 1))]
        ELSE IF type = "categorical"
        THEN [st1 EXCEPT
                !.h[p] = SetCol(@, Column(name, "object", ImputeMostFrequent(pc.vals))),
                !.imp = Put(@, name, Fitted("most_frequent", <<MostFrequent(pc.vals)>>, call)),
                !.steps = Append(@, Step(1, "most_frequent", name, 1))]
        ELSE [st1 EXCEPT
                !.h[p] = SetCol(@, Column(name, pc.dtype, ffill(pc.vals))),
                !.steps = Append(@, Step(1, "ffill", name, 1))]

RECURSIVE missing_loop(_, _, _, _, _, _)
missing_loop(st, df, p, names, i, call) ==
    IF i > Len(names) \/ st.status # "ok" THEN st
    ELSE missing_loop(missing_column(st, df, p, names[i], call), df, p, names, i + 1, call)

\* _handle_missing_values(df): st.r is df; the result's r is processed_df
handle_missing_values(st, call) ==
    LET c == DfCopy(st.h, st.r)
        st1 == [st EXCEPT !.h = c.h]
    IN  [missing_loop(st1, st.r, c.r, ColNames(st.h[st.r]), 1, call) EXCEPT !.r = c.r]

(***************************************************************************)
(* Stage 2: _process_datetime_columns.                                     *)
(***************************************************************************)
\* the civil date of a day number (days since 1970-01-01)
CivilFromDays(d) ==
    LET z == d + 719468
        era == z \div 146097
        doe == z - era * 146097
        yoe == (doe - doe \div 1460 + doe \div 36524 - doe \div 146096) \div 365
        doy == doe - (365 * yoe + yoe \div 4 - yoe \div 100)
        mp == (5 * doy + 2) \div 153
        day == doy - (153 * mp + 2) \div 5 + 1
        month == IF mp < 10 THEN mp + 3 ELSE mp - 9
        year == yoe + era * 400 + (IF month <= 2 THEN 1 ELSE 0)
    IN  [year |-> year, month |-> month, day |-> day]

\* slip: a day of week that counts from Sunday
DayOfWeekFromSunday(d) == (d + 4) % 7

\* Series.dt.dayofweek: Monday is 0 (1970-01-01 was a Thursday)
DayOfWeek(d) == (d + 3) % 7

Cyc(fn, x, period) == [k |-> "cyc", n |-> 1000 * period + 10 * x + fn]

\* the ten features of one Timestamp cell, in the order they are appended;
\* a NaT row gives NaN everywhere except for is_weekend, where the
\* comparison NaN >= 5 is False
DatetimeFeature(v, which) ==
    IF IsNull(v)
    THEN (IF which = "is_weekend" THEN Num(0) ELSE Null)
    ELSE LET cd == CivilFromDays(v.n)
             dow == DayOfWeek(v.n)
         IN  CASE which = "year" -> Num(cd.year)
               [] which = "month" -> Num(cd.month)
               [] which = "day" -> Num(cd.day)
               [] which = "dayofweek" -> Num(dow)
               [] which = "quarter" -> Num((cd.month - 1) \div 3 + 1)
               [] which = "is_weekend" -> Num(IF dow >= 5 THEN 1 ELSE 0)
               [] which = "month_sin" -> Cyc(0, cd.month, 12)
               [] which = "month_cos" -> Cyc(1, cd.month, 12)
               [] which = "dayofweek_sin" -> Cyc(0, dow, 7)
               [] which = "dayofweek_cos" -> Cyc(1, dow, 7)

DatetimeFeatures ==
    <<"year", "month", "day", "dayofweek", "quarter", "is_weekend",
      "month_sin", "month_cos", "dayofweek_sin", "dayofweek_cos">>

\* the storage type of a column of numbers: float64 once a NaN is in it
NumberDtype(vals, cyc) ==
    IF cyc \/ AnyOf(vals, IsNull) THEN "float64" ELSE "int64"

RECURSIVE add_features(_, _, _, _)
\* processed_df[f'{column}_{feature}'] = ..., feature by feature
add_features(t, name, tsvals, i) ==
    IF i > Len(DatetimeFeatures) THEN t
    ELSE LET f == DatetimeFeatures[i]
             vals == [j \in DOMAIN tsvals |-> DatetimeFeature(tsvals[j], f)]
         IN  add_features(
                 SetCol(t, Column(name \o "_" \o f, NumberDtype(vals, i > 6), vals)),
                 name, tsvals, i + 1)

\* one iteration of "for column in df.columns" of _process_datetime_columns
datetime_column(st, df, p, name) ==
    LET c == GetCol(st.h[df], name)
        pc == GetCol(st.h[p], name)
        info == analyze_column(c)
        type == info.detected_type
        st1 == [st EXCEPT !.seen = Append(@, <<2, name, type>>)]
        tsvals == [j \in DOMAIN pc.vals |-> to_datetime(pc.vals[j])]
    IN  IF info.status = "raise" THEN RaiseIn(st, info.error)
        ELSE IF type = "datetime"
        THEN IF ~AllOf(pc.vals, to_datetime_ok)
             THEN RaiseIn(st1, "ValueError")
             ELSE [st1 EXCEPT
                     !.h[p] = add_features(
                                  SetCol(@, Column(name, "datetime64[ns]", tsvals)),
                                  name, tsvals, 1),
                     !.steps = Append(@, Step(2, "datetime", name, Len(DatetimeFeatures)))]
        ELSE st1

RECURSIVE datetime_loop(_, _, _, _, _)
datetime_loop(st, df, p, names, i) ==
    IF i > Len(names) \/ st.status # "ok" THEN st
    ELSE datetime_loop(datetime_column(st, df, p, names[i]), df, p, names, i + 1)

\* _process_datetime_columns(df)
process_datetime_columns(st) ==
    LET c == DfCopy(st.h, st.r)
        st1 == [st EXCEPT !.h = c.h]
    IN  [datetime_loop(st1, st.r, c.r, ColNames(st.h[st.r]), 1) EXCEPT !.r = c.r]

(***************************************************************************)
(* Stage 3: _encode_categorical_variables.                                 *)
(***************************************************************************)
\* str(category), as used in the names of the indicator columns; word i is
\* written "w<i>"
CellStr(v) ==
    CASE v.k = "word" -> "w" \o ToString(v.n)
      [] v.k = "numstr" -> ToString(v.n)
      [] v.k = "num" -> ToString(v.n)
      [] v.k = "null" -> "nan"
      [] OTHER -> v.k \o ToString(v.n)

\* the cells of a column as a set, NaN included
Cells(vals) == {vals[i] : i \in DOMAIN vals}

\* slip: OneHotEncoder(drop='first'), no indicator for the first category
OneHotColumnsDropFirst(name, vals) ==
    LET cats == Tail(SortedSeq(Cells(vals)))
    IN  [i \in DOMAIN cats |->
            Column(name \o "_" \o CellStr(cats[i]), "float64",
                   [j \in DOMAIN vals |-> Num(IF vals[j] = cats[i] THEN 1 ELSE 0)])]

\* OneHotEncoder(sparse=False).fit_transform(df[[column]]): one column of
\* 0.0/1.0 per category, the categories in sorted order
OneHotColumns(name, vals) ==
    LET cats == SortedSeq(Cells(vals))
    IN  [i \in DOMAIN cats |->
            Column(name \o "_" \o CellStr(cats[i]), "float64",
                   [j \in DOMAIN vals |-> Num(IF vals[j] = cats[i] THEN 1 ELSE 0)])]

\* LabelEncoder().fit_transform(series.astype(str)): the position of each
\* cell among the sorted distinct cells, counted from 0
LabelCodes(vals) ==
    LET classes == SortedSeq(Cells(vals))
    IN  [j \in DOMAIN vals |-> Num(IndexOf(classes, vals[j]) - 1)]

\* one iteration of "for column in df.columns" of
\* _encode_categorical_variables; st.r is processed_df, which the one-hot
\* branch rebinds to a new table (drop + concat)
encode_column(st, df, name, target_column, call) ==
    LET c == GetCol(st.h[df], name)
        pc == GetCol(st.h[st.r], name)
        info == analyze_column(c)
        type == info.detected_type
        st1 == [st EXCEPT !.seen = Append(@, <<3, name, type>>)]
        cats == SortedSeq(Cells(pc.vals))
    IN  IF name = target_column THEN st
        ELSE IF info.status = "raise" THEN RaiseIn(st, info.error)
        ELSE IF type # "categorical" THEN st1
        ELSE IF info.unique_count <= OneHotMax
        THEN [st1 EXCEPT
                !.h = Append(@, DropCol(st.h[st.r], name) \o OneHotColumns(name, pc.vals)),
                !.r = Len(st.h) + 1,
                !.enc = Put(@, name, Fitted("one_hot", cats, call)),
                !.steps = Append(@, Step(3, "one_hot", name, info.unique_count))]
        ELSE [st1 EXCEPT
                !.h[st.r] = SetCol(@, Column(name, "int64", LabelCodes(pc.vals))),
                !.enc = Put(@, name, Fitted("label", cats, call)),
                !.steps = Append(@, Step(3, "label", name, info.unique_count))]

RECURSIVE encode_loop(_, _, _, _, _, _)
encode_loop(st, df, names, i, target_column, call) ==
    IF i > Len(names) \/ st.status # "ok" THEN st
    ELSE encode_loop(encode_column(st, df, names[i], target_column, call),
                     df, names, i + 1, target_column, call)

\* _encode_categorical_variables(df, target_column)
encode_categorical_variables(st, target_column, call) ==
    LET c == DfCopy(st.h, st.r)
        st1 == [st EXCEPT !.h = c.h, !.r = c.r]
    IN  encode_loop(st1, st.r, ColNames(st.h[st.r]), 1, target_column, call)

(***************************************************************************)
(* Stage 4: _scale_numeric_features.                                       *)
(***************************************************************************)
RECURSIVE SumNums(_)
SumNums(vals) == IF Len(vals) = 0 THEN 0 ELSE vals[1].n + SumNums(Tail(vals))

Scaled(x) == [k |-> "scaled", n |-> x]

\* StandardScaler on one column: (x - mean) / std, kept as the numerator
\* N*x - sum; a NaN stays NaN
StandardScale(vals) ==
    LET present == dropna(vals)
        N == Len(present)
        S == SumNums(present)
    IN  [j \in DOMAIN vals |-> IF IsNull(vals[j]) THEN Null ELSE Scaled(N * vals[j].n - S)]

RECURSIVE numeric_loop(_, _, _, _, _)
\* the loop collecting numeric_columns; the accumulator is
\* <<call state, numeric_columns>>
numeric_loop(acc, df, names, i, target_column) ==
    IF i > Len(names) \/ acc[1].status # "ok" THEN acc
    ELSE LET name == names[i]
             info == analyze_column(GetCol(acc[1].h[df], name))
             type == info.detected_type
             st1 == [acc[1] EXCEPT !.seen = Append(@, <<4, name, type>>)]
             next == IF name = target_column THEN acc
                     ELSE IF info.status = "raise" THEN <<RaiseIn(acc[1], info.error), acc[2]>>
                     ELSE IF type = "numeric" THEN <<st1, Append(acc[2], name)>>
                     ELSE <<st1, acc[2]>>
         IN  numeric_loop(next, df, names, i + 1, target_column)

RECURSIVE scale_all(_, _, _)
\* processed_df[numeric_columns] = scaler.fit_transform(...)
scale_all(t, cols, i) ==
    IF i > Len(cols) THEN t
    ELSE scale_all(SetCol(t, Column(cols[i], "float64", StandardScale(GetCol(t, cols[i]).vals))),
                   cols, i + 1)

\* _scale_numeric_features(df, target_column)
scale_numeric_features(st, target_column, call) ==
    LET c == DfCopy(st.h, st.r)
        st1 == [st EXCEPT !.h = c.h, !.r = c.r]
        acc == numeric_loop(<<st1, <<>>>>, st.r, ColNames(st.h[st.r]), 1, target_column)
        st2 == acc[1]
        cols == acc[2]
        t == st2.h[c.r]
    IN  IF st2.status # "ok" \/ Len(cols) = 0 THEN st2
        ELSE IF \E i \in DOMAIN cols : ~AllOf(GetCol(t, cols[i]).vals, to_numeric_ok)
        THEN \* "could not convert string to float"
             RaiseIn(st2, "ValueError")
        ELSE [st2 EXCEPT
                !.h[c.r] = scale_all(t, cols, 1),
                !.scal = Put(@, "numeric_features", Fitted("standard", cols, call)),
                !.steps = Append(@, Step(4, "scaling", "numeric_features", Len(cols)))]

(***************************************************************************)
(* Stage 5: _prepare_segmentation.                                         *)
(***************************************************************************)
RECURSIVE unique(_)
\* series.unique(): the distinct cells in order of first appearance (NaN
\* included)
unique(vals) ==
    IF Len(vals) = 0 THEN <<>>
    ELSE LET before == unique(SubSeq(vals, 1, Len(vals) - 1))
             last == vals[Len(vals)]
         IN  IF \E i \in DOMAIN before : before[i] = last THEN before
             ELSE Append(before, last)

\* series.value_counts().to_dict(): the rows of every non-null cell
value_counts(vals) ==
    [v \in distinct(vals) |-> Cardinality({i \in DOMAIN vals : vals[i] = v})]

NoSegmentation == [column |-> "None", segments |-> <<>>,
                   segment_counts |-> <<>>, total_segments |-> 0]

\* _prepare_segmentation(df, segmentation_column)
prepare_segmentation(t, segmentation_column) ==
    LET segments == unique(GetCol(t, segmentation_column).vals)
    IN  [column |-> segmentation_column,
         segments |-> segments,
         segment_counts |-> value_counts(GetCol(t, segmentation_column).vals),
         total_segments |-> Len(segments)]

(***************************************************************************)
(* prepare_for_modeling.                                                   *)
(***************************************************************************)
\* slip: the columns of the table, the target among them
feature_columns_unfiltered(t, target_column) == ColNames(t)

\* [col for col in processed_df.columns if col != target_column]
feature_columns(t, target_column) ==
    SelectSeq(ColNames(t), LAMBDA x : x # target_column)

\* slip: the encoding stage called before the datetime stage
run_stages_encode_first(table, target_column, enc, scal, imp, call) ==
    LET s0 == CallState("ok", <<table>>, 1, <<>>, enc, scal, imp, <<>>)
        c == DfCopy(s0.h, s0.r)
        s1 == handle_missing_values([s0 EXCEPT !.h = c.h, !.r = c.r], call)
        s2 == IF s1.status = "ok"
              THEN encode_categorical_variables(s1, target_column, call) ELSE s1
        s3 == IF s2.status = "ok" THEN process_datetime_columns(s2) ELSE s2
        s4 == IF s3.status = "ok"
              THEN scale_numeric_features(s3, target_column, call) ELSE s3
    IN  s4

\* the four table stages of prepare_for_modeling, from the caller's table
\* and the registries of the instance, to the state after stage 4
run_stages(table, target_column, enc, scal, imp, call) ==
    LET s0 == CallState("ok", <<table>>, 1, <<>>, enc, scal, imp, <<>>)
        c == DfCopy(s0.h, s0.r)
        s1 == handle_missing_values([s0 EXCEPT !.h = c.h, !.r = c.r], call)
        s2 == IF s1.status = "ok" THEN process_datetime_columns(s1) ELSE s1
        s3 == IF s2.status = "ok"
              THEN encode_categorical_variables(s2, target_column, call) ELSE s2
        s4 == IF s3.status = "ok"
              THEN scale_numeric_features(s3, target_column, call) ELSE s3
    IN  s4

NoResult == [status |-> "none"]

NoArgs == [target_column |-> "None", segmentation_column |-> "None"]

\* slip: no "in processed_df.columns" test, df[segmentation_column] raises
ResultOfUnchecked(st, target_column, segmentation_column) ==
    LET t == st.h[st.r]
    IN  IF segmentation_column # "None" /\ ~HasCol(t, segmentation_column)
        THEN Raised("KeyError")
        ELSE [status |-> "ok",
              processed_data |-> t,
              preprocessing_steps |-> st.steps,
              segmentation_info |->
                  IF segmentation_column # "None"
                  THEN prepare_segmentation(t, segmentation_column)
                  ELSE NoSegmentation,
              feature_columns |-> feature_columns(t, target_column),
              target_column |-> target_column,
              encoders_used |-> "encoders",
              scalers_used |-> "scalers"]

\* slip: the dict holds copies of the registries, taken at the return
ResultOfSnapshot(st, target_column, segmentation_column) ==
    LET t == st.h[st.r]
    IN  [status |-> "ok",
         processed_data |-> t,
         preprocessing_steps |-> st.steps,
         segmentation_info |->
             IF segmentation_column # "None" /\ HasCol(t, segmentation_column)
             THEN prepare_segmentation(t, segmentation_column)
             ELSE NoSegmentation,
         feature_columns |-> feature_columns(t, target_column),
         target_column |-> target_column,
         encoders_used |-> "copy", encoders_copy |-> st.enc,
         scalers_used |-> "copy", scalers_copy |-> st.scal]

\* the dict prepare_for_modeling returns; "None" stands for Python's None.
\* encoders_used and scalers_used are references to the registries of the
\* instance, written here as the name of the field they point to.
ResultOf(st, target_column, segmentation_column) ==
    LET t == st.h[st.r]
    IN  [status |-> "ok",
         processed_data |-> t,
         preprocessing_steps |-> st.steps,
         segmentation_info |->
             IF segmentation_column # "None" /\ HasCol(t, segmentation_column)
             THEN prepare_segmentation(t, segmentation_column)
             ELSE NoSegmentation,
         feature_columns |-> feature_columns(t, target_column),
         target_column |-> target_column,
         encoders_used |-> "encoders",
         scalers_used |-> "scalers"]

(***************************************************************************)
(* The detector harness: one column, analysed once.                        *)
(***************************************************************************)
NoAnalysis == [status |-> "none"]

RECURSIVE SeqsUpTo(_, _)
\* all sequences over S of length 0..n
SeqsUpTo(S, n) ==
    IF n = 0 THEN {<<>>}
    ELSE LET shorter == SeqsUpTo(S, n - 1)
         IN  shorter \cup {Append(s, x) : s \in {t \in shorter : Len(t) = n - 1}, x \in S}

ObjectPool == {Null, DateStr(19730), BadDate(1), NumStr(10001), Word(1), Word(2)}
NumberPool == {Null, Num(25), Num(30)}
StringPool == {Null, Word(1), Word(2)}

\* k distinct words, each reps times: w1..wk, w1..wk, ...
WordColumn(k, reps) == [i \in 1..(k * reps) |-> Word(((i - 1) % k) + 1)]

\* n numeric strings followed by j words
FractionColumn(n, j) ==
    [i \in 1..(n + j) |-> IF i <= n THEN NumStr(10000 + i) ELSE Word(i - n)]

DetectorColumns ==
    {Column("c", "object", v) : v \in SeqsUpTo(ObjectPool, MaxLen)}
    \cup {Column("c", "float64", v) : v \in SeqsUpTo(NumberPool, MaxLen)}
    \cup {Column("c", "string", v) : v \in SeqsUpTo(StringPool, MaxLen)}
    \cup {Column("c", d, WordColumn(k, r)) :
            d \in {"object", "string"}, k \in 1..MaxK, r \in 1..MaxReps}
    \cup {Column("c", "object", FractionColumn(n, j)) :
            n \in 0..MaxNumStr, j \in 0..MaxJunk}

\* AutoDataAnalyzer.__init__
InitAnalyzer ==
    /\ column_info = EmptyRegistry
    /\ encoders = EmptyRegistry
    /\ scalers = EmptyRegistry
    /\ imputers = EmptyRegistry
    /\ transformation_log = <<>>

\* DataPreprocessor.__init__
InitPreprocessor ==
    [scalers |-> EmptyRegistry, encoders |-> EmptyRegistry,
     imputers |-> EmptyRegistry, feature_names |-> <<>>]

\* a model that was never created (Python's None)
NoModel == [kind |-> "None", fitted |-> FALSE]

\* forecast_results before the first forecast (the empty dict)
NoForecasts == [forecast_metadata |-> "None"]

\* SegmentedForecaster.__init__ ; self.analyzer is the analyzer of the module
InitForecaster ==
    [global_model |-> NoModel, segment_models |-> EmptyRegistry,
     model_performance |-> EmptyRegistry, forecast_results |-> NoForecasts]

\* nothing else was constructed or called yet
InitOthers ==
    /\ held = <<>>
    /\ report = NoResult
    /\ preprocessor = InitPreprocessor
    /\ pre_result = NoResult
    /\ forecaster = InitForecaster
    /\ fc_result = NoResult

InitDet ==
    /\ InitOthers
    /\ col \in DetectorColumns
    /\ analysis = NoAnalysis
    /\ again = NoAnalysis
    /\ caller_df = <<>>
    /\ InitAnalyzer
    /\ args = NoArgs
    /\ result = NoResult
    /\ consulted = <<>>
    /\ heap = <<>>
    /\ calls = 0

\* slip: the detector keeps its result in self.column_info
AnalyzeColumnCaching ==
    /\ analysis = NoAnalysis
    /\ analysis' = analyze_column(col)
    /\ column_info' = Put(column_info, col.name, analyze_column(col))
    /\ UNCHANGED <<col, again, caller_df, encoders, scalers, imputers,
                   transformation_log, args, result, consulted, heap, calls,
                   held, others>>

\* a caller runs the detector on the column
AnalyzeColumn ==
    /\ analysis = NoAnalysis
    /\ analysis' = analyze_column(col)
    /\ UNCHANGED <<col, again, pipeline, others>>

\* the caller runs the detector on the same column once more
AnalyzeAgain ==
    /\ analysis # NoAnalysis
    /\ again = NoAnalysis
    /\ again' = analyze_column(col)
    /\ UNCHANGED <<col, analysis, pipeline, others>>

NextDet == AnalyzeColumn \/ AnalyzeAgain

SpecDet == InitDet /\ [][NextDet]_vars

(***************************************************************************)
(* The pipeline harness: a caller holds a table and calls                  *)
(* prepare_for_modeling on a fresh analyzer.  The stages only write the    *)
(* registries, so what a call does to its table does not depend on earlier *)
(* calls.                                                                  *)
(***************************************************************************)
\* cell j of a generated column of a kind
CellOf(kind, j) ==
    CASE kind = "num" -> Num(20 + 2 * j)
      [] kind = "date" -> DateStr(19725 + 5 * j)      \* 2024-01-08 (Mon), 2024-01-13 (Sat), ...
      [] kind = "numstr" -> NumStr(10000 + 2 * j)
      [] OTHER -> Word(j)

\* a generated column: k distinct cells in rotation, nulls at the rows of
\* `nulls`.  Kind "mixed" is a date string followed by words; kind
\* "numjunk" is numeric strings with a word in the last row.
ColumnOf(name, kind, k, nulls, rows) ==
    Column(name,
           IF kind = "num" THEN (IF nulls = {} THEN "int64" ELSE "float64") ELSE "object",
           [i \in 1..rows |->
               IF i \in nulls THEN Null
               ELSE IF kind = "mixed"
                    THEN (IF i = 1 \/ (i = 2 /\ 1 \in nulls) THEN DateStr(19730) ELSE Word(((i - 1) % k) + 1))
               ELSE IF kind = "numjunk"
                    THEN (IF i = rows THEN Word(1) ELSE NumStr(10000 + 2 * (((i - 1) % k) + 1)))
               ELSE CellOf(kind, ((i - 1) % k) + 1)])

Kinds == {"num", "date", "numstr", "word", "mixed", "numjunk"}

NullPatterns == {{}} \cup {{i} : i \in 1..NullPositions}

SmallColumns(name) ==
    {ColumnOf(name, kind, k, nulls, NRows) :
        kind \in Kinds, k \in 1..MaxDistinct, nulls \in NullPatterns}

\* tables wide enough for a column of more than OneHotMax categories, and
\* for a column in which more than 80% of the cells are numeric
WideRows == OneHotMax + 2

WideTables ==
    {<<ColumnOf("a", "word", k, nulls, WideRows), ColumnOf("b", kind, 2, {}, WideRows)>> :
        k \in {OneHotMax, OneHotMax + 1}, nulls \in NullPatterns,
        kind \in {"num", "numstr", "numjunk"}}

\* tables shaped like the sample of the module's __main__ block: a date, a
\* numeric target, a category and a numeric string feature
SampleTables ==
    {<<ColumnOf("date", "date", 2, n1, NRows), ColumnOf("sales", "num", 2, {}, NRows),
       ColumnOf("region", "word", 2, n2, NRows), ColumnOf("code", "numstr", 2, {}, NRows)>> :
        n1 \in NullPatterns, n2 \in NullPatterns}

Tables ==
    {<<a>> : a \in SmallColumns("a")}
    \cup {<<a, b>> : a \in SmallColumns("a"), b \in SmallColumns("b")}
    \cup WideTables
    \cup SampleTables

\* the names a caller may pass: None, a column, or a name of no column
NamesFor(t) == {"None", "zz"} \cup {t[i].name : i \in DOMAIN t}

Init ==
    /\ caller_df \in Tables
    /\ InitAnalyzer
    /\ InitOthers
    /\ args = NoArgs
    /\ result = NoResult
    /\ consulted = <<>>
    /\ heap = <<>>
    /\ calls = 0
    /\ col = Column("c", "object", <<>>)
    /\ analysis = NoAnalysis
    /\ again = NoAnalysis

\* slip: target_column is not handed on to the stages
prepare_for_modeling_target_dropped(target_column, segmentation_column, call) ==
    \E st \in {run_stages(caller_df, "None", encoders, scalers, imputers, call)} :
        /\ caller_df' = st.h[1]
        /\ encoders' = st.enc
        /\ scalers' = st.scal
        /\ imputers' = st.imp
        /\ consulted' = st.seen
        /\ heap' = st.h
        /\ calls' = call
        /\ result' = IF st.status = "ok"
                      THEN ResultOf(st, target_column, segmentation_column)
                      ELSE Raised(st.status)
        /\ args' = [target_column |-> target_column,
                    segmentation_column |-> segmentation_column]
        /\ UNCHANGED <<column_info, transformation_log>>

\* prepare_for_modeling(df, target_column, segmentation_column)
\* what a prepare_for_modeling call leaves behind once the stages have run
\* to the state st
prepare_leaves(st, target_column, segmentation_column, call) ==
    /\ caller_df' = st.h[1]
    /\ encoders' = st.enc
    /\ scalers' = st.scal
    /\ imputers' = st.imp
    /\ consulted' = st.seen
    /\ heap' = st.h
    /\ calls' = call
    /\ result' = IF st.status = "ok"
                  THEN ResultOf(st, target_column, segmentation_column)
                  ELSE Raised(st.status)
    /\ args' = [target_column |-> target_column,
                segmentation_column |-> segmentation_column]
    /\ UNCHANGED <<column_info, transformation_log>>

prepare_for_modeling(target_column, segmentation_column, call) ==
    \E st \in {run_stages(caller_df, target_column, encoders, scalers, imputers, call)} :
        prepare_leaves(st, target_column, segmentation_column, call)

PrepareForModeling ==
    /\ result = NoResult
    /\ \E target_column \in NamesFor(caller_df) \ {"zz"}, segmentation_column \in NamesFor(caller_df) :
          prepare_for_modeling(target_column, segmentation_column, calls + 1)
    /\ held' = IF result'.status = "ok" THEN Append(held, result') ELSE held
    /\ UNCHANGED <<detector, others>>

Next == PrepareForModeling

Spec == Init /\ [][Next]_vars

(***************************************************************************)
(* Call sequences: a caller makes up to MaxCalls calls of                  *)
(* prepare_for_modeling on one analyzer, on the table it holds, and may    *)
(* take another table between two calls.  args, result, consulted and heap *)
(* describe the last call.                                                 *)
(***************************************************************************)
SeqTables ==
    {<<ColumnOf("a", "word", 2, {1}, NRows)>>,
     <<ColumnOf("b", "word", 2, {}, NRows)>>,
     <<ColumnOf("b", "numstr", 2, {2}, NRows)>>,
     <<ColumnOf("a", "date", 1, {}, NRows)>>,
     <<ColumnOf("a", "numstr", 2, {}, NRows)>>,
     <<ColumnOf("b", "word", 2, {1}, NRows)>>,
     <<ColumnOf("a", "word", OneHotMax + 1, {}, WideRows)>>,
     <<ColumnOf("a", "word", 2, {1}, NRows), ColumnOf("b", "mixed", 2, {}, NRows)>>,
     <<ColumnOf("b", "word", 2, {}, NRows), ColumnOf("a", "numstr", 2, {}, NRows)>>}

InitSeq ==
    /\ caller_df \in SeqTables
    /\ InitAnalyzer
    /\ InitOthers
    /\ args = NoArgs
    /\ result = NoResult
    /\ consulted = <<>>
    /\ heap = <<>>
    /\ calls = 0
    /\ col = Column("c", "object", <<>>)
    /\ analysis = NoAnalysis
    /\ again = NoAnalysis

\* the next call on the instance
PrepareNext ==
    /\ calls < MaxCalls
    /\ \E target_column \in NamesFor(caller_df) \ {"zz"} :
          prepare_for_modeling(target_column, "None", calls + 1)
    /\ held' = IF result'.status = "ok" THEN Append(held, result') ELSE held
    /\ UNCHANGED <<detector, others>>

\* the caller takes another table
NewTable ==
    /\ calls \in 1..(MaxCalls - 1)
    /\ caller_df' \in SeqTables \ {caller_df}
    /\ UNCHANGED <<analyzer, args, result, consulted, heap, calls, held, detector, others>>

NextSeq == PrepareNext \/ NewTable

SpecSeq == InitSeq /\ [][NextSeq]_vars

(***************************************************************************)
(* analyze_dataset: the detector on every column, the data quality report  *)
(* and the recommendations.  A percentage is kept as the fraction          *)
(* num / den it is computed from; den = 0 is the NaN of a table without    *)
(* cells.  memory_usage and analysis_timestamp are left out of the         *)
(* summary.                                                                *)
(***************************************************************************)
MissingPctMax == 10

\* df.isnull().sum().sum()
NullCells(t) == SumNums([i \in DOMAIN t |-> Num(null_count(t[i].vals))])

\* df.isnull().sum().sum() / (len(df) * len(df.columns)) * 100
missing_pct(t) == [num |-> 100 * NullCells(t), den |-> NRowsOf(t) * Len(t)]

\* slip: the threshold itself counts as high
PctAtLeast(pct, n) == pct.den # 0 /\ pct.num >= n * pct.den

\* pct > n ; a comparison with NaN is False
PctAbove(pct, n) == pct.den # 0 /\ pct.num > n * pct.den

RowOf(t, row) == [i \in DOMAIN t |-> t[i].vals[row]]

\* df.duplicated().sum(): the rows equal to an earlier row
duplicated(t) ==
    Cardinality({row \in 1..NRowsOf(t) :
                    \E earlier \in 1..(row - 1) : RowOf(t, earlier) = RowOf(t, row)})

\* df.isnull().any() ; False for a column without rows
AnyNull(c) == \E row \in DOMAIN c.vals : IsNull(c.vals[row])

\* df.isnull().all() ; True for a column without rows
AllNull(c) == \A row \in DOMAIN c.vals : IsNull(c.vals[row])

\* slip: the missing value counts as a value, nunique(dropna=False)
SingleValuedCountingNull(c) == Cardinality({c.vals[row] : row \in DOMAIN c.vals}) <= 1

\* df[col].nunique() <= 1
SingleValued(c) == nunique(c.vals) <= 1

\* _analyze_data_quality(df)
analyze_data_quality(t) ==
    [missing_data_percentage |-> missing_pct(t),
     duplicate_rows |-> duplicated(t),
     columns_with_missing_data |-> ColNames(SelectSeq(t, AnyNull)),
     completely_empty_columns |-> ColNames(SelectSeq(t, AllNull)),
     single_value_columns |-> ColNames(SelectSeq(t, SingleValued))]

Recommendation(type, priority, message) ==
    [type |-> type, priority |-> priority, message |-> message]

\* the columns of a detected type, in the order of the column_analysis dict
ColumnsOfType(t, column_analysis, type) ==
    SelectSeq(ColNames(t), LAMBDA name : column_analysis[name].detected_type = type)

\* _generate_recommendations(df, analysis)
generate_recommendations(t, column_analysis) ==
    (IF PctAbove(missing_pct(t), MissingPctMax)
     THEN <<Recommendation("data_quality", "high", "High missing data rate")>>
     ELSE <<>>)
    \o (IF Len(ColumnsOfType(t, column_analysis, "categorical")) > 0
        THEN <<Recommendation("preprocessing", "medium", "categorical columns that need encoding")>>
        ELSE <<>>)
    \o (IF Len(ColumnsOfType(t, column_analysis, "numeric")) > 1
        THEN <<Recommendation("preprocessing", "medium", "Consider feature scaling")>>
        ELSE <<>>)

\* analyze_dataset(df): the first column on which the detector raises ends
\* the call
analyze_dataset(t) ==
    LET analyses == [i \in DOMAIN t |-> analyze_column(t[i])]
        raising == {i \in DOMAIN t : analyses[i].status = "raise"}
        column_analysis ==
            [name \in {t[i].name : i \in DOMAIN t} |-> analyze_column(GetCol(t, name))]
    IN  IF raising # {}
        THEN analyses[CHOOSE i \in raising : \A j \in raising : i <= j]
        ELSE [status |-> "ok",
              dataset_summary |-> [total_rows |-> NRowsOf(t), total_columns |-> Len(t)],
              column_analysis |-> column_analysis,
              data_quality |-> analyze_data_quality(t),
              recommendations |-> generate_recommendations(t, column_analysis)]

\* the tables of the one-call harness, and tables at the limits of the
\* rules: ten cells of which one or two are missing, a column of nothing but
\* missing values, a table without rows and a table without columns
BoundaryRows == 100 \div MissingPctMax

AnalysisTables ==
    Tables
    \cup {<<ColumnOf("a", kind, 2, nulls, BoundaryRows)>> :
             kind \in {"word", "numstr"}, nulls \in {{}, {1}, {1, 2}}}
    \cup {<<ColumnOf("a", "word", 1, 1..NRows, NRows), b>> : b \in SmallColumns("b")}
    \cup {<<ColumnOf("a", "word", 2, nulls, NRows), ColumnOf("b", "numstr", 2, {}, NRows),
             ColumnOf("c", "numstr", 2, {}, NRows)>> : nulls \in NullPatterns}
    \cup {<<Column("a", "object", <<>>)>>, <<>>}

InitAnalysis ==
    /\ caller_df \in AnalysisTables
    /\ InitAnalyzer
    /\ InitOthers
    /\ args = NoArgs
    /\ result = NoResult
    /\ consulted = <<>>
    /\ heap = <<>>
    /\ calls = 0
    /\ col = Column("c", "object", <<>>)
    /\ analysis = NoAnalysis
    /\ again = NoAnalysis

\* a caller has its table analysed; the method reads the table and the
\* detector, and assigns to nothing but its local dict
AnalyzeDataset ==
    /\ report = NoResult
    /\ report' = analyze_dataset(caller_df)
    /\ UNCHANGED <<pipeline, detector, preprocessor, pre_result, forecaster, fc_result>>

NextAnalysis == AnalyzeDataset

SpecAnalysis == InitAnalysis /\ [][NextAnalysis]_vars

(***************************************************************************)
(* DataPreprocessor (preprocessing.py).  The variable preprocessor holds   *)
(* the fields of one instance; pre_result holds the arguments and the      *)
(* outcome of the last call on it.                                         *)
(***************************************************************************)
\* df.select_dtypes(include=[np.number]): bool is no number
NumericDtype(dtype) == dtype \in {"int64", "float64", "uint8"}

NumericColumns(t) == SelectSeq(ColNames(t), LAMBDA name : NumericDtype(GetCol(t, name).dtype))

\* df.select_dtypes(include=['object'])
ObjectColumns(t) == SelectSeq(ColNames(t), LAMBDA name : GetCol(t, name).dtype = "object")

\* df[col].mean(), kept as the pair <<sum, count>>
MeanCell(vals) == [k |-> "mean", n |-> <<SumNums(dropna(vals)), Len(dropna(vals))>>]

\* one column of DataPreprocessor.handle_missing_values
fill_column(c, strategy) ==
    IF null_count(c.vals) = 0 THEN c
    ELSE IF c.dtype \in {"int64", "float64"}
    THEN LET fill == CASE strategy = "mean" -> MeanCell(c.vals)
                       [] strategy = "median" -> Num(Median(c.vals))
                       [] strategy = "mode" -> MostFrequent(c.vals)
                       [] strategy = "zero" -> Num(0)
                       [] OTHER -> Null
         IN  [c EXCEPT !.vals = [i \in DOMAIN c.vals |->
                                   IF IsNull(c.vals[i]) THEN fill ELSE c.vals[i]]]
    ELSE [c EXCEPT !.vals = ImputeMostFrequent(c.vals)]

\* DataPreprocessor.handle_missing_values(df, strategy)
pre_handle_missing_values(t, strategy) == [i \in DOMAIN t |-> fill_column(t[i], strategy)]

\* 4 * series.quantile(q / 4) by linear interpolation, q = 1 or 3
Quartile4(vals, q) ==
    LET sorted == SortedNums(dropna(vals))
        m == q * (Len(sorted) - 1)
        lo == (m \div 4) + 1
        r == m % 4
    IN  (4 - r) * sorted[lo] + (IF r > 0 THEN r * sorted[lo + 1] ELSE 0)

\* the rows within [Q1 - 1.5 IQR, Q3 + 1.5 IQR] of a column of df; a
\* comparison with NaN is False (bounds and cells are taken times 8)
RowsWithinIQR(c) ==
    IF Len(dropna(c.vals)) = 0 THEN {}
    ELSE LET q1 == Quartile4(c.vals, 1)
             q3 == Quartile4(c.vals, 3)
         IN  {row \in DOMAIN c.vals :
                 /\ NotNull(c.vals[row])
                 /\ 8 * c.vals[row].n >= 5 * q1 - 3 * q3
                 /\ 8 * c.vals[row].n <= 5 * q3 - 3 * q1}

RECURSIVE RowsInOrder(_)
RowsInOrder(S) ==
    IF S = {} THEN <<>>
    ELSE LET m == CHOOSE x \in S : \A y \in S : x <= y
         IN  <<m>> \o RowsInOrder(S \ {m})

\* processed_df[mask]
KeepRows(t, rows) ==
    LET order == RowsInOrder(rows)
    IN  [i \in DOMAIN t |->
            [t[i] EXCEPT !.vals = [j \in DOMAIN order |-> t[i].vals[order[j]]]]]

\* DataPreprocessor.remove_outliers(df), method 'iqr', threshold 1.5: the
\* bounds of every numeric column are taken from df, the rows outside them
\* leave processed_df
pre_remove_outliers(t) ==
    KeepRows(t, {row \in 1..NRowsOf(t) :
                    \A i \in DOMAIN t : NumericDtype(t[i].dtype) => row \in RowsWithinIQR(t[i])})

\* MinMaxScaler on one column: (x - min) / (max - min), kept as the
\* numerator x - min; a NaN stays NaN
MinMaxScale(vals) ==
    LET sorted == SortedNums(dropna(vals))
    IN  [j \in DOMAIN vals |->
            IF IsNull(vals[j]) THEN Null ELSE Scaled(vals[j].n - sorted[1])]

RECURSIVE pre_scale_columns(_, _, _, _)
pre_scale_columns(t, columns, method, i) ==
    IF i > Len(columns) THEN t
    ELSE LET c == GetCol(t, columns[i])
             vals == IF method = "minmax" THEN MinMaxScale(c.vals) ELSE StandardScale(c.vals)
         IN  pre_scale_columns(SetCol(t, Column(c.name, "float64", vals)), columns, method, i + 1)

\* the state a method of the preprocessor leaves: the table it returns (or
\* the exception it raises) and the registries of the instance
PreState(status, table, object) == [status |-> status, table |-> table, object |-> object]

\* DataPreprocessor.scale_features(df, columns, method): the method name is
\* tested before anything is fitted or stored; a scaler refuses a table
\* without columns or without rows
scale_features(t, columns, method, object, call) ==
    IF method \notin {"minmax", "standard"}
    THEN PreState("ValueError: Method must be 'minmax' or 'standard'", t, object)
    ELSE IF Len(columns) = 0 \/ NRowsOf(t) = 0
    THEN PreState("ValueError", t, object)
    ELSE PreState("ok", pre_scale_columns(t, columns, method, 1),
             [object EXCEPT !.scalers = Put(@, method, Fitted(method, columns, call))])

\* pd.get_dummies(processed_df[col], prefix=col): one indicator column per
\* category other than NaN, in sorted order; their storage type is uint8
\* before pandas 2.0 and bool since
Dummies(name, vals, dummy_dtype) ==
    LET cats == SortedSeq(distinct(vals))
    IN  [i \in DOMAIN cats |->
            Column(name \o "_" \o CellStr(cats[i]), dummy_dtype,
                   [j \in DOMAIN vals |-> Num(IF vals[j] = cats[i] THEN 1 ELSE 0)])]

\* the keyword arguments of a call, and what the library does where its
\* versions differ: method names, remove_outliers, and dummy_dtype
Options(missing_strategy, scaling_method, encoding_method, remove_outliers, dummy_dtype) ==
    [missing_strategy |-> missing_strategy, scaling_method |-> scaling_method,
     encoding_method |-> encoding_method, remove_outliers |-> remove_outliers,
     dummy_dtype |-> dummy_dtype]

RECURSIVE encode_categorical_loop(_, _, _, _, _)
\* the loop of encode_categorical: a method name other than 'label' and
\* 'onehot' matches neither branch, and the column is left as it is
encode_categorical_loop(ps, columns, options, call, i) ==
    IF i > Len(columns) THEN ps
    ELSE LET c == GetCol(ps.table, columns[i])
         IN  encode_categorical_loop(
                 IF options.encoding_method = "label"
                 THEN PreState("ok",
                          SetCol(ps.table, Column(c.name, "int64", LabelCodes(c.vals))),
                          [ps.object EXCEPT !.encoders =
                              Put(@, c.name, Fitted("label", SortedSeq(Cells(c.vals)), call))])
                 ELSE IF options.encoding_method = "onehot"
                 THEN PreState("ok",
                          DropCol(ps.table, c.name)
                              \o Dummies(c.name, c.vals, options.dummy_dtype),
                          ps.object)
                 ELSE ps,
                 columns, options, call, i + 1)

\* DataPreprocessor.encode_categorical(df, columns, method)
encode_categorical(t, columns, options, object, call) ==
    encode_categorical_loop(PreState("ok", t, object), columns, options, call, 1)

\* DataPreprocessor.generate_preprocessing_report(original_df, processed_df)
generate_preprocessing_report(original_df, processed_df) ==
    [original_shape |-> <<NRowsOf(original_df), Len(original_df)>>,
     processed_shape |-> <<NRowsOf(processed_df), Len(processed_df)>>,
     rows_removed |-> NRowsOf(original_df) - NRowsOf(processed_df),
     columns_added |-> Len(processed_df) - Len(original_df),
     missing_values_before |-> missing_pct(original_df).num \div 100,
     missing_values_after |-> missing_pct(processed_df).num \div 100,
     numeric_columns |-> Len(NumericColumns(processed_df)),
     categorical_columns |-> Len(ObjectColumns(processed_df))]

\* index.drop(target_column)
Without(names, name) == SelectSeq(names, LAMBDA x : x # name)

\* DataPreprocessor.full_preprocessing_pipeline(df, target_column,
\* date_column=None, missing_strategy, scaling_method, encoding_method,
\* remove_outliers, create_lag_features=False, create_interactions=False):
\* without a date column step 3 is skipped, and the caller has switched off
\* steps 4 and 6.  Steps 1, 2, 5 and 7 run in this order, each on the table
\* the step before returned; an exception of a step ends the call, and what
\* earlier steps stored in the instance stays stored.
full_preprocessing_pipeline(t, target_column, options, object, call) ==
    LET s1 == pre_handle_missing_values(t, options.missing_strategy)
        s2 == IF options.remove_outliers THEN pre_remove_outliers(s1) ELSE s1
        s5 == encode_categorical(s2, ObjectColumns(s2), options, object, call)
        s7 == IF s5.status # "ok" THEN s5
              ELSE scale_features(s5.table, Without(NumericColumns(s5.table), target_column),
                                  options.scaling_method, s5.object, call)
    IN  [status |-> s7.status, table |-> s7.table, object |-> s7.object,
         report |-> IF s7.status = "ok"
                    THEN generate_preprocessing_report(t, s7.table)
                    ELSE <<>>]

\* what the caller has after a call: the arguments it passed and either the
\* returned table (and report) or the exception
PreResult(n, op, options, target_column, out) ==
    [n |-> n, op |-> op, options |-> options, target_column |-> target_column,
     status |-> IF out.status = "ok" THEN "ok" ELSE "raise",
     error |-> IF out.status = "ok" THEN "None" ELSE out.status,
     processed_df |-> IF out.status = "ok" THEN out.table ELSE <<>>,
     report |-> IF out.status = "ok" /\ "report" \in DOMAIN out THEN out.report ELSE <<>>]

ScalingMethods == {"minmax", "standard", "robust"}

EncodingMethods == {"label", "onehot", "target"}

DummyDtypes == {"uint8", "bool"}

\* tables without missing values: columns of numbers, of words and of
\* numeric strings, and a table with an outlier in a column of numbers
PreColumns(name) ==
    {ColumnOf(name, kind, k, {}, NRows) : kind \in {"num", "word"}, k \in {1, MaxDistinct}}

PreTables ==
    {<<a>> : a \in PreColumns("a")}
    \cup {<<a, b>> : a \in PreColumns("a"), b \in PreColumns("b")}
    \cup {<<Column("sales", "int64", <<Num(22), Num(24), Num(22), Num(90), Num(24)>>),
            ColumnOf("season", "word", 2, {}, NRows + 2)>>}

PreCalls == IF pre_result = NoResult THEN 0 ELSE pre_result.n

InitPre ==
    /\ caller_df \in PreTables
    /\ InitAnalyzer
    /\ InitOthers
    /\ args = NoArgs
    /\ result = NoResult
    /\ consulted = <<>>
    /\ heap = <<>>
    /\ calls = 0
    /\ col = Column("c", "object", <<>>)
    /\ analysis = NoAnalysis
    /\ again = NoAnalysis

\* preprocessor.scale_features(df, method=...)
ScaleFeatures ==
    /\ PreCalls < MaxCalls
    /\ \E method \in ScalingMethods :
        \E out \in {scale_features(caller_df, NumericColumns(caller_df), method,
                                    preprocessor, PreCalls + 1)} :
          /\ preprocessor' = out.object
          /\ pre_result' = PreResult(PreCalls + 1, "scale_features",
                                Options("mean", method, "None", FALSE, "None"), "None", out)
    /\ UNCHANGED <<pipeline, detector, report, forecaster, fc_result>>

\* preprocessor.encode_categorical(df, method=...)
EncodeCategorical ==
    /\ PreCalls < MaxCalls
    /\ \E method \in EncodingMethods, dummy_dtype \in DummyDtypes :
        \E options \in {Options("mean", "None", method, FALSE, dummy_dtype)} :
        \E out \in {encode_categorical(caller_df, ObjectColumns(caller_df), options,
                                        preprocessor, PreCalls + 1)} :
          /\ preprocessor' = out.object
          /\ pre_result' = PreResult(PreCalls + 1, "encode_categorical", options, "None", out)
    /\ UNCHANGED <<pipeline, detector, report, forecaster, fc_result>>

\* preprocessor.full_preprocessing_pipeline(df, target_column, ...)
FullPreprocessingPipeline ==
    /\ PreCalls < MaxCalls
    /\ \E scaling_method \in ScalingMethods, encoding_method \in EncodingMethods,
          remove_outliers \in BOOLEAN, dummy_dtype \in DummyDtypes,
          target_column \in NamesFor(caller_df) \ {"zz"} :
        \E options \in {Options("mean", scaling_method, encoding_method,
                                 remove_outliers, dummy_dtype)} :
        \E out \in {full_preprocessing_pipeline(caller_df, target_column, options,
                                                 preprocessor, PreCalls + 1)} :
          /\ preprocessor' = out.object
          /\ pre_result' = PreResult(PreCalls + 1, "full_preprocessing_pipeline",
                                options, target_column, out)
    /\ UNCHANGED <<pipeline, detector, report, forecaster, fc_result>>

NextPre == ScaleFeatures \/ EncodeCategorical \/ FullPreprocessingPipeline

SpecPre == InitPre /\ [][NextPre]_vars

(***************************************************************************)
(* SegmentedForecaster (segmented_forecasting.py).  The variable           *)
(* forecaster holds the fields of one instance; its analyzer is the        *)
(* analyzer of this module, and fit_models and forecast call               *)
(* prepare_for_modeling on it.  A model is kept as what it was fitted on;  *)
(* its predictions are a fixed function of the model and the feature row.  *)
(* The tables of the harness have no missing values.                       *)
(***************************************************************************)
MinSegmentRows == 10
TopN == 10
TestFraction == 5           \* test_size=0.2 is one row in five

\* train_test_split(test_size=0.2): ceil(0.2 * n) rows are test rows
TestRows(n) == (n + TestFraction - 1) \div TestFraction

\* the rows of a column that hold the value v
RowsOf(cells, v) == {row \in DOMAIN cells : cells[row] = v}

RECURSIVE SumOf(_, _)
\* the sum of f over the set S
SumOf(f, S) ==
    IF S = {} THEN 0
    ELSE LET v == CHOOSE x \in S : TRUE IN f[v] + SumOf(f, S \ {v})

\* the test sets train_test_split may draw from a table with n rows, as the
\* number of test rows of every segment: fit_models reads the split only
\* through the sums of its segment masks.  random_state=42 fixes one
\* shuffle per table length; which one is not modelled, so every way the
\* test rows can fall to the segments is taken.
Splits(n, cells) ==
    LET values == {cells[row] : row \in DOMAIN cells}
    IN  {test \in [values -> 0..TestRows(n)] :
            /\ \A v \in values : test[v] <= Cardinality(RowsOf(cells, v))
            /\ SumOf(test, values) = TestRows(n)}

\* _create_model(model_type)
create_model(model_type) ==
    [kind |-> IF model_type = "linear_regression" THEN "LinearRegression"
              ELSE "RandomForestRegressor",
     fitted |-> FALSE]

\* model.fit(X, y): the model remembers its features and its training rows
FittedModel(model_type, features, rows, call) ==
    [kind |-> create_model(model_type).kind, fitted |-> TRUE,
     features |-> features, rows |-> rows, call |-> call]

\* processed_df[feature_columns] is a table of numbers; timestamps and
\* strings are not
NumericX(t, features) ==
    \A k \in DOMAIN features :
        \A row \in 1..NRowsOf(t) : IsNumber(GetCol(t, features[k]).vals[row])

\* what y = processed_df[target_column] holds: booleans ("number": the
\* stages leave them alone and arithmetic takes them), numeric strings,
\* timestamps (a column of numbers after stage 2), or other strings
TargetKind(c) ==
    IF \A row \in DOMAIN c.vals : c.vals[row].k = "bool" THEN "number"
    ELSE IF \A row \in DOMAIN c.vals : c.vals[row].k = "numstr" THEN "numstr"
    ELSE IF \A row \in DOMAIN c.vals : c.vals[row].k = "ts" THEN "ts"
    ELSE "other"

\* _calculate_metrics(y_true, y_pred), kept as the number of rows scored
Metrics(rows) == [rows |-> rows]

FcOut(status, object, value) == [status |-> status, object |-> object, value |-> value]

RECURSIVE segment_loop_fresh(_, _, _, _, _, _, _, _)
\* slip: the segment models of earlier calls are dropped before the loop
segment_loop_fresh(object, t, features, segments, i, test, opts, call) ==
    IF i > Len(segments) THEN object
    ELSE LET segment == segments[i]
             cells == GetCol(t, opts.segmentation_column).vals
             test_seg == IF segment \in DOMAIN test THEN test[segment] ELSE 0
             train_seg == Cardinality(RowsOf(cells, segment)) - test_seg
             kept == IF i = 1 THEN [object EXCEPT !.segment_models = EmptyRegistry]
                     ELSE object
             scored == IF test_seg > 0
                       THEN Put(kept.model_performance,
                                "segment_" \o CellStr(segment),
                                Metrics(test_seg))
                       ELSE kept.model_performance
         IN  segment_loop_fresh(
                 IF train_seg > MinSegmentRows
                 THEN [kept EXCEPT
                          !.model_performance = scored,
                          !.segment_models =
                              Put(@, segment,
                                  FittedModel(opts.model_type, features, train_seg, call))]
                 ELSE kept,
                 t, features, segments, i + 1, test, opts, call)

RECURSIVE segment_loop(_, _, _, _, _, _, _, _)
\* the loop "for segment in segmentation_info['segments']" of fit_models
segment_loop(object, t, features, segments, i, test, opts, call) ==
    IF i > Len(segments) THEN object
    ELSE LET segment == segments[i]
             cells == GetCol(t, opts.segmentation_column).vals
             test_seg == IF segment \in DOMAIN test THEN test[segment] ELSE 0
             train_seg == Cardinality(RowsOf(cells, segment)) - test_seg
             scored == IF test_seg > 0
                       THEN Put(object.model_performance,
                                "segment_" \o CellStr(segment),
                                Metrics(test_seg))
                       ELSE object.model_performance
         IN  segment_loop(
                 IF train_seg > MinSegmentRows
                 THEN [object EXCEPT
                          !.model_performance = scored,
                          !.segment_models =
                              Put(@, segment,
                                  FittedModel(opts.model_type, features, train_seg, call))]
                 ELSE object,
                 t, features, segments, i + 1, test, opts, call)

\* the arguments of a call on the forecaster; test and y_as_float are what
\* the library decides: the test rows of every segment, and whether fit
\* accepts a target of timestamps
FcOptions(target_column, segmentation_column, model_type, forecast_periods, test, y_as_float) ==
    [target_column |-> target_column, segmentation_column |-> segmentation_column,
     model_type |-> model_type, forecast_periods |-> forecast_periods,
     test |-> test, y_as_float |-> y_as_float]

\* what the library may decide in a fit_models call.  The split matters to
\* the outcome only when segment models are trained, and the conversion of
\* a target of timestamps only when the target is one; elsewhere one
\* choice stands for all.
LibraryChoices(prepared, target_column, segmentation_column) ==
    LET t == prepared.processed_data
        segmented == /\ segmentation_column # "None"
                     /\ prepared.segmentation_info # NoSegmentation
        stamps == /\ HasCol(t, target_column)
                  /\ TargetKind(GetCol(t, target_column)) = "ts"
    IN  IF prepared.status # "ok" THEN {<<<<>>, FALSE>>}
        ELSE (IF segmented
              THEN Splits(NRowsOf(t), GetCol(t, segmentation_column).vals)
              ELSE {<<>>})
             \X (IF stamps THEN BOOLEAN ELSE {FALSE})

\* fit_models(df, target_column, segmentation_column, model_type), after
\* prepare_for_modeling has returned `prepared` or raised
fit_models(prepared, opts, object, call) ==
    IF prepared.status # "ok" THEN FcOut(prepared.error, object, <<>>)
    ELSE
    LET t == prepared.processed_data
        features == prepared.feature_columns
        n == NRowsOf(t)
        created == [object EXCEPT !.global_model = create_model(opts.model_type)]
        trained == [object EXCEPT !.global_model =
                        FittedModel(opts.model_type, features, n - TestRows(n), call)]
        scored == [trained EXCEPT !.model_performance =
                        Put(@, "global", Metrics(TestRows(n)))]
        segmented ==
            IF opts.segmentation_column # "None" /\ prepared.segmentation_info # NoSegmentation
            THEN segment_loop(scored, t, features, prepared.segmentation_info.segments,
                              1, opts.test, opts, call)
            ELSE scored
    IN  IF ~HasCol(t, opts.target_column)
        THEN FcOut("KeyError", object, <<>>)                 \* line 42
        ELSE IF n - TestRows(n) <= 0
        THEN FcOut("ValueError", object, <<>>)               \* line 45
        ELSE IF Len(features) = 0 \/ ~NumericX(t, features)
        THEN FcOut("TypeError", created, <<>>)               \* line 50, X
        ELSE IF TargetKind(GetCol(t, opts.target_column)) = "other"
        THEN FcOut("ValueError", created, <<>>)              \* line 50, y
        ELSE IF TargetKind(GetCol(t, opts.target_column)) = "ts" /\ ~opts.y_as_float
        THEN FcOut("TypeError", created, <<>>)               \* line 50, y
        ELSE IF TargetKind(GetCol(t, opts.target_column)) # "number"
        THEN FcOut("TypeError", trained, <<>>)               \* line 54, y_true - y_pred
        ELSE FcOut("ok", segmented,
                   [preprocessing_info |-> prepared,
                    model_performance |-> segmented.model_performance,
                    segments_trained |-> DOMAIN segmented.segment_models])

\* model.predict(last_row)[0]: some fixed function of the fitted model and
\* the feature row
Predict(model, row) == SumNums(row) + model.rows + model.call

\* df[feature_columns].iloc[-1:]
LastRow(t, features) == [k \in DOMAIN features |-> GetCol(t, features[k]).vals[NRowsOf(t)]]

\* slip: the period is added to the prediction
ForecastsDrifting(model, row, periods) ==
    [i \in 1..periods |-> [period |-> i, day |-> i, predicted_value |-> Predict(model, row) + i]]

\* the loop "for i in range(periods)": every prediction is made from the
\* same last_row; day is the offset of the entry's date from today
Forecasts(model, row, periods) ==
    [i \in 1..periods |-> [period |-> i, day |-> i, predicted_value |-> Predict(model, row)]]

\* the summary of a forecast; the mean is kept as the total and the count
Summary(forecasts) ==
    [total_forecast |->
         SumNums([i \in DOMAIN forecasts |-> Num(forecasts[i].predicted_value)]),
     periods |-> Len(forecasts),
     trend |-> IF forecasts[Len(forecasts)].predicted_value > forecasts[1].predicted_value
               THEN "increasing" ELSE "decreasing"]

\* can model.predict(last_row) be evaluated, and if not, what is raised
PredictError(model, t, features) ==
    IF model = NoModel THEN "AttributeError"
    ELSE IF ~model.fitted THEN "NotFittedError"
    ELSE IF NRowsOf(t) = 0 \/ model.features # features THEN "ValueError"
    ELSE IF ~NumericX(t, features) THEN "TypeError"
    ELSE "None"

\* _generate_global_forecast and _generate_segment_forecast: model is the
\* model that predicts, t the table whose last row it is given
generate_forecast(model, t, features, periods, segment) ==
    IF PredictError(model, t, features) # "None"
    THEN [status |-> PredictError(model, t, features)]
    ELSE IF periods = 0
    THEN [status |-> "IndexError"]                            \* forecasts[-1]
    ELSE LET forecasts == Forecasts(model, LastRow(t, features), periods)
         IN  [status |-> "ok", segment |-> segment, model |-> model,
              forecasts |-> forecasts, summary |-> Summary(forecasts)]

\* processed_df[processed_df[segmentation_column] == segment]
SegmentRows(t, segmentation_column, segment) ==
    KeepRows(t, {row \in 1..NRowsOf(t) : GetCol(t, segmentation_column).vals[row] = segment})

\* forecast(df, target_column, segmentation_column, forecast_periods),
\* after prepare_for_modeling has returned `prepared` or raised.  Only the
\* segments with a model of their own in segment_models get a forecast.
forecast(prepared, opts, object) ==
    IF prepared.status # "ok" THEN FcOut(prepared.error, object, <<>>)
    ELSE
    LET t == prepared.processed_data
        features == prepared.feature_columns
        global_forecast ==
            generate_forecast(object.global_model, t, features, opts.forecast_periods, "None")
        segments ==
            IF opts.segmentation_column # "None" /\ prepared.segmentation_info # NoSegmentation
            THEN {prepared.segmentation_info.segments[k] :
                     k \in DOMAIN prepared.segmentation_info.segments}
            ELSE {}
        forecasted ==
            {segment \in segments \cap DOMAIN object.segment_models :
                NRowsOf(SegmentRows(t, opts.segmentation_column, segment)) > 0}
        segmented_forecasts ==
            [segment \in forecasted |->
                generate_forecast(object.segment_models[segment],
                                  SegmentRows(t, opts.segmentation_column, segment),
                                  features, opts.forecast_periods, segment)]
        failed == {segment \in forecasted : segmented_forecasts[segment].status # "ok"}
        results ==
            [global_forecast |-> global_forecast,
             segmented_forecasts |-> segmented_forecasts,
             forecast_metadata |->
                 [forecast_periods |-> opts.forecast_periods,
                  segments_forecasted |-> forecasted]]
    IN  IF global_forecast.status # "ok"
        THEN FcOut(global_forecast.status, object, <<>>)
        ELSE IF failed # {}
        THEN FcOut(segmented_forecasts[CHOOSE segment \in failed : TRUE].status, object, <<>>)
        ELSE FcOut("ok", [object EXCEPT !.forecast_results = results], results)

RECURSIVE KeysInOrder(_)
\* the keys of a dict as a list
KeysInOrder(keys) ==
    IF keys = {} THEN <<>>
    ELSE LET first == CHOOSE x \in keys : TRUE
         IN  <<first>> \o KeysInOrder(keys \ {first})

\* get_feature_importance(top_n=10): zip() of the keys of
\* analyzer.column_info with the importances of the global model stops at
\* the shorter of the two; a model without feature_importances_ (None, not
\* fitted, or a linear regression) gives the empty list
get_feature_importance(object, info) ==
    IF object.global_model.kind = "RandomForestRegressor" /\ object.global_model.fitted
    THEN SubSeq(KeysInOrder(DOMAIN info), 1,
                Min(Min(Cardinality(DOMAIN info), Len(object.global_model.features)), TopN))
    ELSE <<>>

\* generate_forecast_report()
generate_forecast_report(object, info, log) ==
    IF object.forecast_results = NoForecasts
    THEN [status |-> "ok", message |-> "No forecasts generated yet"]
    ELSE [status |-> "ok", message |-> "None",
          executive_summary |->
              [global_trend |-> object.forecast_results.global_forecast.summary.trend,
               number_of_segments |->
                   Cardinality(DOMAIN object.forecast_results.segmented_forecasts)],
          technical_details |->
              [model_performance |-> object.model_performance,
               preprocessing_steps |-> log,
               feature_importance |-> get_feature_importance(object, info)]]

\* what the caller has after a call on the forecaster: the value returned
\* or the exception raised
FcResult(op, out) ==
    [op |-> op,
     status |-> IF out.status = "ok" THEN "ok" ELSE "raise",
     error |-> IF out.status = "ok" THEN "None" ELSE out.status,
     value |-> out.value]

MaxFcCalls == 2     \* forecaster: fit_models and forecast calls on one instance
MaxPeriods == 2     \* forecaster: forecast_periods is 0..MaxPeriods

FcRows == MinSegmentRows + 4

BoolColumn(name, rows) == Column(name, "bool", [i \in 1..rows |-> Bool(i % 2)])

\* a column of store numbers: `few` rows of a second store at the end
StoreColumn(name, rows, few) ==
    Column(name, "object",
           [i \in 1..rows |-> NumStr(IF i > rows - few THEN 10004 ELSE 10002)])

\* tables a forecaster is used on; the first column is the target.  A
\* boolean target with the stores as segments (one store; a large and a
\* small store; a few rows of another store), with a category as
\* segments, and a target of numbers.
FcTables ==
    {<<BoolColumn("y", FcRows), StoreColumn("s", FcRows, 0)>>,
     <<BoolColumn("y", FcRows), StoreColumn("s", FcRows, 2)>>,
     <<BoolColumn("y", NRows), StoreColumn("s", NRows, NRows)>>,
     <<BoolColumn("y", NRows), ColumnOf("s", "word", 2, {}, NRows)>>,
     <<ColumnOf("y", "num", 2, {}, NRows), StoreColumn("s", NRows, 1)>>}

ModelTypes == {"random_forest", "linear_regression"}

InitFc ==
    /\ caller_df \in FcTables
    /\ InitAnalyzer
    /\ InitOthers
    /\ args = NoArgs
    /\ result = NoResult
    /\ consulted = <<>>
    /\ heap = <<>>
    /\ calls = 0
    /\ col = Column("c", "object", <<>>)
    /\ analysis = NoAnalysis
    /\ again = NoAnalysis

\* forecaster.fit_models(df, target_column, segmentation_column, model_type),
\* where the stages of its prepare_for_modeling call run to the state st
FitModels(st) ==
    \E segmentation_column \in {"None", caller_df[2].name}, model_type \in ModelTypes :
       /\ prepare_leaves(st, caller_df[1].name, segmentation_column, calls + 1)
       /\ \E out \in {fit_models(result',
                                  FcOptions(caller_df[1].name, segmentation_column,
                                            model_type, 0, choice[1], choice[2]),
                                  forecaster, calls + 1) :
                           choice \in LibraryChoices(result', caller_df[1].name,
                                                     segmentation_column)} :
             /\ forecaster' = out.object
             /\ fc_result' = FcResult("fit_models", out)

\* forecaster.forecast(df, target_column, segmentation_column, forecast_periods),
\* where the stages of its prepare_for_modeling call run to the state st
Forecast(st) ==
    \E segmentation_column \in {"None", caller_df[2].name},
       forecast_periods \in 0..MaxPeriods :
       /\ prepare_leaves(st, caller_df[1].name, segmentation_column, calls + 1)
       /\ \E opts \in {FcOptions(caller_df[1].name, segmentation_column, "None",
                                  forecast_periods, <<>>, FALSE)} :
          \E out \in {forecast(result', opts, forecaster)} :
             /\ forecaster' = out.object
             /\ fc_result' = FcResult("forecast", out)

\* a call of fit_models or of forecast with the first column as the target:
\* both begin with the same prepare_for_modeling call on the table.  The
\* caller's analysis of the table is dropped with the call.
CallForecaster ==
    /\ calls < MaxFcCalls
    /\ \E st \in {run_stages(caller_df, caller_df[1].name, encoders, scalers, imputers,
                               calls + 1)} :
          \/ FitModels(st)
          \/ Forecast(st)
    /\ report' = NoResult
    /\ UNCHANGED <<held, detector, preprocessor, pre_result>>

\* forecaster.get_feature_importance()
GetFeatureImportance ==
    /\ fc_result' = FcResult("get_feature_importance",
                         FcOut("ok", forecaster, get_feature_importance(forecaster, column_info)))
    /\ UNCHANGED <<pipeline, detector, report, preprocessor, pre_result, forecaster>>

\* forecaster.generate_forecast_report()
GenerateForecastReport ==
    /\ fc_result' = FcResult("generate_forecast_report",
                         FcOut("ok", forecaster,
                               generate_forecast_report(forecaster, column_info,
                                                        transformation_log)))
    /\ UNCHANGED <<pipeline, detector, report, preprocessor, pre_result, forecaster>>

\* slip: analyze_dataset keeps the column analyses in self.column_info
AnalyzeStoring ==
    /\ report = NoResult
    /\ report' = analyze_dataset(caller_df)
    /\ column_info' = IF report'.status = "ok" THEN report'.column_analysis ELSE column_info
    /\ UNCHANGED <<caller_df, encoders, scalers, imputers, transformation_log, args, result,
                   consulted, heap, calls, held, detector, preprocessor, pre_result,
                   forecaster, fc_result>>

\* forecaster.analyzer.analyze_dataset(df) between two calls on the
\* forecaster; report is the analysis the caller holds until its next call
Analyze ==
    /\ report = NoResult
    /\ report' = analyze_dataset(caller_df)
    /\ UNCHANGED <<pipeline, detector, preprocessor, pre_result, forecaster, fc_result>>

\* the caller takes another table
FcNewTable ==
    /\ calls \in 1..(MaxFcCalls - 1)
    /\ caller_df' \in FcTables \ {caller_df}
    /\ UNCHANGED <<analyzer, args, result, consulted, heap, calls, held, detector, others>>

NextFc ==
    \/ CallForecaster
    \/ GetFeatureImportance
    \/ GenerateForecastReport
    \/ Analyze
    \/ FcNewTable

SpecFc == InitFc /\ [][NextFc]_vars

(***************************************************************************)
(* Claims about prepare_for_modeling, checked under Spec.                  *)
(***************************************************************************)
Returned == result.status = "ok"

\* the stage numbers of a log or of the detector record never decrease
StagesInOrder(stages) ==
    \A i, j \in DOMAIN stages : i < j => stages[i] <= stages[j]

\* the entries of the returned log written by a stage
EntriesOf(stage) == {i \in DOMAIN result.preprocessing_steps :
                        result.preprocessing_steps[i].stage = stage}

EntryColumns(stage) == {result.preprocessing_steps[i].column : i \in EntriesOf(stage)}

\* C1: prepare_for_modeling never modifies the caller's table: its columns,
\* rows and cells are the same after the call as before it, whether the
\* call returns or raises.
C1_InputUnchanged == [][caller_df' = caller_df]_vars

\* C1 witness: a call returned a processed table that differs from the input.
C1_Witness == Returned /\ result.processed_data # caller_df

\* C2: the stages run in the order missing values, datetime, encoding,
\* scaling; the returned log holds the entries of stage 1, then 2, then 3,
\* then 4, one per action: one per input column with a null, one per column
\* that got datetime features, one per fitted encoder, one per fitted scaler.
C2_StagesInOrder ==
    /\ StagesInOrder([i \in DOMAIN consulted |-> consulted[i][1]])
    /\ Returned =>
         /\ StagesInOrder([i \in DOMAIN result.preprocessing_steps |->
                              result.preprocessing_steps[i].stage])
         /\ EntryColumns(1) = {caller_df[i].name : i \in
                                 {j \in DOMAIN caller_df : AnyOf(caller_df[j].vals, IsNull)}}
         /\ EntryColumns(2) = {caller_df[i].name : i \in
                                 {j \in DOMAIN caller_df :
                                    HasCol(result.processed_data, caller_df[j].name \o "_year")}}
         /\ EntryColumns(3) = DOMAIN encoders
         /\ EntryColumns(4) = DOMAIN scalers
         /\ \A stage \in 1..4 : Cardinality(EntriesOf(stage)) = Cardinality(EntryColumns(stage))
         /\ EntriesOf(1) \cup EntriesOf(2) \cup EntriesOf(3) \cup EntriesOf(4)
              = DOMAIN result.preprocessing_steps

\* C2 witness: a returned log with entries of all four stages.
C2_Witness ==
    Returned /\ \A stage \in 1..4 : EntriesOf(stage) # {}

\* C3 (as claimed): a column consulted by two stages of one call has the
\* same detected type at both.
C3_TypeStableAcrossStages ==
    \A i, j \in DOMAIN consulted :
        consulted[i][2] = consulted[j][2] => consulted[i][3] = consulted[j][3]

\* the input columns the claim C4 is about: categorical, not the target,
\* at most 10 distinct values
LowCardinalityColumns ==
    {i \in DOMAIN caller_df :
        /\ caller_df[i].name # args.target_column
        /\ analyze_column(caller_df[i]).status = "ok"
        /\ analyze_column(caller_df[i]).detected_type = "categorical"
        /\ nunique(caller_df[i].vals) <= 10}

IndicatorName(c, v) == c.name \o "_" \o CellStr(v)

\* C4: for a categorical non-target column with at most 10 distinct values
\* the returned table has one indicator column <col>_<category> per
\* observed category, of zeros and ones, and in every row whose original
\* value was not null the indicators of the column sum to 1.
C4_OneHotRowsSumToOne ==
    Returned =>
        \A i \in LowCardinalityColumns :
            LET c == caller_df[i]
                cats == distinct(c.vals)
                cell(v, row) == GetCol(result.processed_data, IndicatorName(c, v)).vals[row]
            IN  /\ \A v \in cats :
                      /\ Cardinality({j \in DOMAIN result.processed_data :
                            result.processed_data[j].name = IndicatorName(c, v)}) = 1
                      /\ \A row \in DOMAIN c.vals : cell(v, row) \in {Num(0), Num(1)}
                /\ \A row \in DOMAIN c.vals :
                      NotNull(c.vals[row]) =>
                          Cardinality({v \in cats : cell(v, row) = Num(1)}) = 1

\* C4 witness: a returned table for an input with a two-category column
\* that also has a null.
C4_Witness ==
    /\ Returned
    /\ \E i \in LowCardinalityColumns :
          nunique(caller_df[i].vals) = 2 /\ AnyOf(caller_df[i].vals, IsNull)

\* C5 (as claimed, for a segmentation column like region: detected
\* categorical, without nulls, not the target): the call returns a
\* segmentation_info whose segments are the distinct values of that input
\* column and whose counts are their row counts.
C5_SegmentsOfInputColumn ==
    (/\ Returned
     /\ \E i \in LowCardinalityColumns :
           /\ caller_df[i].name = args.segmentation_column
           /\ ~AnyOf(caller_df[i].vals, IsNull)) =>
        LET c == GetCol(caller_df, args.segmentation_column)
        IN  /\ result.segmentation_info # NoSegmentation
            /\ Cells(result.segmentation_info.segments) = distinct(c.vals)
            /\ result.segmentation_info.segment_counts = value_counts(c.vals)
            /\ result.segmentation_info.total_segments = nunique(c.vals)

\* C6 (as claimed): every column listed in feature_columns holds only
\* numbers in processed_data.
C6_FeatureColumnsNumeric ==
    Returned =>
        \A i \in DOMAIN result.feature_columns :
            AllOf(GetCol(result.processed_data, result.feature_columns[i]).vals,
                  LAMBDA v : IsNumber(v) \/ IsNull(v))

(***************************************************************************)
(* Claims about the column type detector, checked under SpecDet.           *)
(***************************************************************************)
Analysed == analysis # NoAnalysis

\* the non-null cells of the analysed column that parse as numbers
ParseCount == CountOf(dropna(col.vals), to_numeric_ok)
NonNullCount == Len(dropna(col.vals))

\* C7 (as claimed): _analyze_column raises for no column; stated here for
\* the columns that have at least one row (a column without rows raises as
\* well, at line 61).
C7_DetectorNeverRaises ==
    (Analysed /\ Len(col.vals) > 0) => analysis.status = "ok"

\* C8 (as claimed, for the columns whose non-null values all parse as
\* numbers, which is 100% and so at least 80%): the detector returns numeric.
C8_NumericAtEightyPercent ==
    (Analysed /\ analysis.status = "ok" /\ NonNullCount > 0) =>
        (ParseCount = NonNullCount => analysis.detected_type = "numeric")

\* the first rule that matches, in the order empty, datetime, numeric,
\* categorical, text
FirstMatchingRule(c) ==
    LET non_null == dropna(c.vals)
    IN  IF Len(non_null) = 0 THEN "empty"
        ELSE IF AllOf(head(non_null, 100), to_datetime_ok)
                \/ AnyOf(head(non_null, 100), matches_date_pattern) THEN "datetime"
        ELSE IF 5 * CountOf(non_null, to_numeric_ok) > 4 * Len(non_null) THEN "numeric"
        ELSE IF 2 * nunique(non_null) < Len(non_null) \/ c.dtype = "object" THEN "categorical"
        ELSE "text"

\* C9 (as claimed): the detector assigns every column (stated here for the
\* columns that have at least one row) the type of the first matching rule.
C9_FirstMatchingRule ==
    (Analysed /\ Len(col.vals) > 0) =>
        /\ analysis.status = "ok"
        /\ analysis.detected_type = FirstMatchingRule(col)

\* C10: the encoding recommendation is set for categorical columns only and
\* follows the distinct count: at most 10 one-hot, 11 to 50 label, 51 or
\* more target encoding; every other type gets none.
C10_EncodingByDistinctCount ==
    (Analysed /\ analysis.status = "ok") =>
        LET n == nunique(col.vals)
        IN  analysis.encoding_recommendation =
                IF analysis.detected_type # "categorical" THEN "None"
                ELSE IF n <= 10 THEN "one_hot_encoding"
                ELSE IF n <= 50 THEN "label_encoding"
                ELSE "target_encoding"

\* C10 witness: a categorical column with 51 distinct values.
C10_Witness ==
    /\ Analysed
    /\ analysis.status = "ok"
    /\ analysis.detected_type = "categorical"
    /\ nunique(col.vals) = 51

Stage1Done == Len(heap) >= 4
AfterStage1 == heap[3]
AfterStage2 == heap[4]
AfterStage3 == heap[Len(heap) - 1]

OnlyLeadingNulls(vals) ==
    \A i \in DOMAIN vals : IsNull(vals[i]) => \A j \in 1..i : IsNull(vals[j])

\* C12: after stage 1 no column detected numeric or categorical contains a
\* null; a column that still has nulls is of another detected type and its
\* nulls are leading ones.
C12_NoNullsAfterStage1 ==
    Stage1Done =>
        \A i \in DOMAIN AfterStage1 :
            LET before == caller_df[i]
                after == AfterStage1[i]
            IN  AnyOf(after.vals, IsNull) =>
                    /\ analyze_column(before).detected_type \notin {"numeric", "categorical"}
                    /\ analyze_column(after).detected_type \notin {"numeric", "categorical"}
                    /\ OnlyLeadingNulls(after.vals)

\* C12 witness: stage 1 has filled a categorical column and has left the
\* leading null of another column.
C12_Witness ==
    /\ Stage1Done
    /\ \E i, j \in DOMAIN caller_df :
          /\ AnyOf(caller_df[i].vals, IsNull)
          /\ analyze_column(caller_df[i]).detected_type = "categorical"
          /\ ~AnyOf(AfterStage1[i].vals, IsNull)
          /\ IsNull(AfterStage1[j].vals[1])

\* C13 (as claimed, for a column of numbers like age = [25, 30, null, 40]):
\* stage 1 replaces every null of the column by the median of its non-null
\* values and leaves the other cells as they were.
C13_NumbersFilledWithMedian ==
    Stage1Done =>
        \A i \in DOMAIN AfterStage1 :
            LET before == caller_df[i]
                after == AfterStage1[i]
            IN  (/\ AllOf(before.vals, LAMBDA v : IsNull(v) \/ v.k = "num")
                 /\ AnyOf(before.vals, NotNull)) =>
                    \A row \in DOMAIN before.vals :
                        after.vals[row] = IF IsNull(before.vals[row])
                                          THEN Num(Median(before.vals))
                                          ELSE before.vals[row]

Stage2Done == Len(heap) >= 5

\* the columns stage 2 finds to be datetime columns
DatetimeColumns ==
    {i \in DOMAIN AfterStage1 : analyze_column(AfterStage1[i]).detected_type = "datetime"}

DerivedNames(name) ==
    {name \o "_" \o f : f \in {"year", "month", "day", "dayofweek", "quarter",
                                 "is_weekend", "month_sin", "month_cos",
                                 "dayofweek_sin", "dayofweek_cos"}}

\* C21: stage 2 keeps every column, appends for each column detected as
\* datetime exactly the ten derived columns <col>_year ... _dayofweek_cos
\* and nothing for the other columns; dayofweek is 0 on a Monday
\* (2024-01-08 is day 19730 and a Monday) and is_weekend is 1 exactly when
\* dayofweek is 5 or 6.
C21_TenDatetimeFeatures ==
    Stage2Done =>
        /\ \A i \in DOMAIN AfterStage1 : AfterStage2[i].name = AfterStage1[i].name
        /\ \A i \in DOMAIN AfterStage1 \ DatetimeColumns : AfterStage2[i] = AfterStage1[i]
        /\ {AfterStage2[j].name : j \in (Len(AfterStage1) + 1)..Len(AfterStage2)}
              = UNION {DerivedNames(AfterStage1[i].name) : i \in DatetimeColumns}
        /\ Len(AfterStage2) = Len(AfterStage1) + 10 * Cardinality(DatetimeColumns)
        /\ \A i \in DatetimeColumns :
              LET name == AfterStage1[i].name
                  days == AfterStage2[i].vals
                  dow == GetCol(AfterStage2, name \o "_dayofweek").vals
                  weekend == GetCol(AfterStage2, name \o "_is_weekend").vals
              IN  \A row \in DOMAIN days :
                    /\ NotNull(days[row]) =>
                          dow[row] = Num((days[row].n + 7 * 19730 - 19730) % 7)
                    /\ weekend[row] = Num(IF dow[row] \in {Num(5), Num(6)} THEN 1 ELSE 0)

\* C21 witness: stage 2 has derived the features of a date column with a
\* Saturday in it, next to a column that is no datetime column.
C21_Witness ==
    /\ Stage2Done
    /\ \E i \in DatetimeColumns :
          \E row \in DOMAIN AfterStage2[i].vals :
              GetCol(AfterStage2, AfterStage1[i].name \o "_is_weekend").vals[row] = Num(1)
    /\ DOMAIN AfterStage1 \ DatetimeColumns # {}

\* the columns stage 3 is to encode: categorical for the detector, not the
\* target
ToEncode ==
    {i \in DOMAIN AfterStage2 :
        /\ AfterStage2[i].name # args.target_column
        /\ analyze_column(AfterStage2[i]).status = "ok"
        /\ analyze_column(AfterStage2[i]).detected_type = "categorical"}

\* the values of column `after` are integer codes of the values of `before`
IsLabelCoding(before, after) ==
    /\ \A row \in DOMAIN before :
          after[row].k = "num" /\ after[row].n \in 0..(nunique(before) - 1)
    /\ \A r1, r2 \in DOMAIN before :
          (after[r1] = after[r2]) <=> (before[r1] = before[r2])

\* C14: stage 3 encodes every categorical column other than the target by
\* its distinct count alone: at most 10, the column is dropped and one
\* indicator column per observed category is appended; more than 10, the
\* column stays and holds integer codes; there is no third encoding, and no
\* other column is touched.
C14_EncodedByDistinctCount ==
    Returned =>
        /\ \A i \in ToEncode :
              LET c == AfterStage2[i]
              IN  IF nunique(c.vals) <= 10
                  THEN /\ ~HasCol(AfterStage3, c.name)
                       /\ \A v \in distinct(c.vals) :
                             /\ HasCol(AfterStage3, IndicatorName(c, v))
                             /\ GetCol(AfterStage3, IndicatorName(c, v)).vals =
                                   [row \in DOMAIN c.vals |->
                                       Num(IF c.vals[row] = v THEN 1 ELSE 0)]
                       /\ encoders[c.name].kind = "one_hot"
                  ELSE /\ HasCol(AfterStage3, c.name)
                       /\ IsLabelCoding(c.vals, GetCol(AfterStage3, c.name).vals)
                       /\ encoders[c.name].kind = "label"
        /\ \A i \in DOMAIN AfterStage2 \ ToEncode :
              /\ HasCol(AfterStage3, AfterStage2[i].name)
              /\ GetCol(AfterStage3, AfterStage2[i].name) = AfterStage2[i]
              /\ AfterStage2[i].name \notin DOMAIN encoders
        /\ \A j \in DOMAIN AfterStage3 :
              \/ HasCol(AfterStage2, AfterStage3[j].name)
              \/ \E i \in ToEncode : \E v \in distinct(AfterStage2[i].vals) :
                    AfterStage3[j].name = IndicatorName(AfterStage2[i], v)

\* C14 witness: a call that label encoded a column of 11 categories and
\* returned.
C14_Witness ==
    /\ Returned
    /\ \E i \in ToEncode :
          /\ nunique(AfterStage2[i].vals) = 11
          /\ encoders[AfterStage2[i].name].kind = "label"

\* C15: the target column is in the processed table, with the values stage
\* 2 produced: stages 3 and 4 leave it alone whatever its detected type.
C15_TargetUntouched ==
    (Returned /\ args.target_column # "None") =>
        /\ HasCol(result.processed_data, args.target_column)
        /\ GetCol(result.processed_data, args.target_column)
              = GetCol(AfterStage2, args.target_column)

\* C15 witness: a returned call whose target is a categorical column and
\* whose other column was encoded or scaled.
C15_Witness ==
    /\ Returned
    /\ args.target_column # "None"
    /\ analyze_column(GetCol(AfterStage2, args.target_column)).status = "ok"
    /\ analyze_column(GetCol(AfterStage2, args.target_column)).detected_type = "categorical"
    /\ (DOMAIN encoders # {} \/ DOMAIN scalers # {})

\* C16: feature_columns is the list of the columns of the processed table
\* without the target: the target is never in it, every other processed
\* column is (the columns added by datetime extraction and one-hot encoding
\* too), each once, and it names nothing else.
C16_FeatureColumnsAreTheRest ==
    Returned =>
        LET names == {result.processed_data[i].name : i \in DOMAIN result.processed_data}
            listed == {result.feature_columns[i] : i \in DOMAIN result.feature_columns}
        IN  /\ args.target_column \notin listed
            /\ listed = names \ {args.target_column}
            /\ Len(result.feature_columns) = Cardinality(listed)

\* C16 witness: a returned table with the target, a datetime feature column
\* and an indicator column.
C16_Witness ==
    /\ Returned
    /\ HasCol(result.processed_data, args.target_column)
    /\ \E i \in DOMAIN caller_df :
          HasCol(result.processed_data, caller_df[i].name \o "_year")
    /\ \E i \in LowCardinalityColumns : \E v \in distinct(caller_df[i].vals) :
          HasCol(result.processed_data, IndicatorName(caller_df[i], v))

\* the registries of the instance the returned dict refers to
ReturnedRegistries == {result.encoders_used, result.scalers_used}

\* C17 (as claimed): every transformer fitted during the call is reachable
\* from the returned value: the encoders of stage 3, the scaler of stage 4
\* and the imputers of stage 1.
C17_FittedTransformersReturned ==
    Returned =>
        /\ DOMAIN encoders # {} => "encoders" \in ReturnedRegistries
        /\ DOMAIN scalers # {} => "scalers" \in ReturnedRegistries
        /\ DOMAIN imputers # {} => "imputers" \in ReturnedRegistries

\* the stages of the same call made without a segmentation column
WithoutSegmentation ==
    run_stages(caller_df, args.target_column, EmptyRegistry, EmptyRegistry, EmptyRegistry, 1)

FirstRow(vals, v) == CHOOSE i \in DOMAIN vals : vals[i] = v /\ \A j \in 1..(i - 1) : vals[j] # v

\* C20 (as claimed): _prepare_segmentation returns the distinct values of
\* the column in order of first appearance, for every segment the number of
\* rows holding it, and total_segments, the number of segments; the table
\* is left as it was.
C20_SegmentsWithCounts ==
    (Returned /\ result.segmentation_info # NoSegmentation) =>
        LET info == result.segmentation_info
            vals == GetCol(result.processed_data, args.segmentation_column).vals
        IN  /\ info.column = args.segmentation_column
            /\ {info.segments[k] : k \in DOMAIN info.segments} = Cells(vals)
            /\ \A k, l \in DOMAIN info.segments :
                  k < l => FirstRow(vals, info.segments[k]) < FirstRow(vals, info.segments[l])
            /\ \A k \in DOMAIN info.segments :
                  /\ info.segments[k] \in DOMAIN info.segment_counts
                  /\ info.segment_counts[info.segments[k]] =
                        Cardinality({row \in DOMAIN vals : vals[row] = info.segments[k]})
            /\ info.total_segments = Len(info.segments)
            /\ info.total_segments = Cardinality(DOMAIN info.segment_counts)
            /\ result.processed_data = heap[Len(heap)]

(***************************************************************************)
(* Claims about analyze_dataset, checked under SpecAnalysis.               *)
(***************************************************************************)
Analysed_ok == report # NoResult /\ report.status = "ok"

MissingCells == {<<i, row>> \in (DOMAIN caller_df) \X (1..NRowsOf(caller_df)) :
                    caller_df[i].vals[row] = Null}

DetectedAs(type) ==
    {name \in DOMAIN report.column_analysis :
        report.column_analysis[name].detected_type = type}

\* C22: the recommendation list holds, in this order, a high data_quality
\* entry iff more than 10 percent of the cells are missing, a medium
\* preprocessing entry iff at least one column was detected categorical and
\* a medium scaling entry iff more than one column was detected numeric;
\* it has no other entry.
C22_RecommendationRules ==
    Analysed_ok =>
        LET cells == Len(caller_df) * NRowsOf(caller_df)
            quality == cells > 0 /\ 100 * Cardinality(MissingCells) > 10 * cells
            encoding == DetectedAs("categorical") # {}
            scaling == Cardinality(DetectedAs("numeric")) > 1
            recs == report.recommendations
            second == IF quality THEN 2 ELSE 1
        IN  /\ Len(recs) = Cardinality({w \in {"q", "e", "s"} :
                                (w = "q" /\ quality) \/ (w = "e" /\ encoding) \/ (w = "s" /\ scaling)})
            /\ quality => /\ recs[1].type = "data_quality"
                          /\ recs[1].priority = "high"
            /\ encoding => /\ recs[second].type = "preprocessing"
                           /\ recs[second].priority = "medium"
                           /\ recs[second].message = "categorical columns that need encoding"
            /\ scaling => /\ recs[Len(recs)].type = "preprocessing"
                          /\ recs[Len(recs)].priority = "medium"
                          /\ recs[Len(recs)].message = "Consider feature scaling"

\* C22 witness: all three rules applied to one table.
C22_Witness ==
    /\ Analysed_ok
    /\ Len(report.recommendations) = 3
    /\ Cardinality(DetectedAs("numeric")) = 2

\* a table with exactly ten percent of missing cells got no data quality entry
TenPercentMissing ==
    /\ Analysed_ok
    /\ 100 * Cardinality(MissingCells) = 10 * Len(caller_df) * NRowsOf(caller_df)
    /\ MissingCells # {}
    /\ \A k \in DOMAIN report.recommendations :
          report.recommendations[k].type # "data_quality"

\* C23: single_value_columns lists exactly the columns with at most one
\* distinct non-null value, every completely empty column is listed among
\* the columns with missing data, and the call leaves the table as it was.
C23_DataQuality ==
    [][report' # report =>
         /\ caller_df' = caller_df
         /\ report'.status = "ok" =>
               LET quality == report'.data_quality
                   Listed(names) == {names[k] : k \in DOMAIN names}
               IN  /\ Listed(quality.single_value_columns) =
                        {caller_df[i].name : i \in
                            {j \in DOMAIN caller_df :
                                Cardinality({caller_df[j].vals[row] :
                                    row \in DOMAIN caller_df[j].vals} \ {Null}) <= 1}}
                   /\ Listed(quality.completely_empty_columns)
                        \subseteq Listed(quality.columns_with_missing_data)]_vars

\* C23 witness: the report of a table with a completely empty column and a
\* column of one value and one missing cell lists both as single valued.
C23_Witness ==
    /\ Analysed_ok
    /\ Len(report.data_quality.completely_empty_columns) = 1
    /\ Len(report.data_quality.single_value_columns) = 2
    /\ \E i \in DOMAIN caller_df :
          /\ Cardinality(distinct(caller_df[i].vals)) = 1
          /\ AnyNull(caller_df[i])

(***************************************************************************)
(* Claims about the DataPreprocessor, checked under SpecPre.               *)
(***************************************************************************)
\* the step is a call of one of the operations on the preprocessor
PreCall(ops) == pre_result' # pre_result /\ pre_result'.op \in ops

\* C24: a call of scale_features or full_preprocessing_pipeline with a
\* scaling method other than 'minmax' and 'standard' raises, returns no
\* table and no report, and leaves the scalers and encoders of the
\* preprocessor as they were before the call.
C24_UnsupportedScalingMethod ==
    [][(/\ PreCall({"scale_features", "full_preprocessing_pipeline"})
        /\ pre_result'.options.scaling_method \notin {"minmax", "standard"})
       => /\ pre_result'.status = "raise"
          /\ pre_result'.processed_df = <<>>
          /\ pre_result'.report = <<>>
          /\ preprocessor'.scalers = preprocessor.scalers
          /\ preprocessor'.encoders = preprocessor.encoders]_vars

\* C25: a call of encode_categorical or full_preprocessing_pipeline with an
\* encoding method other than 'label' and 'onehot' raises an exception
\* instead of returning a table.
C25_UnsupportedEncodingMethod ==
    [][(/\ PreCall({"encode_categorical", "full_preprocessing_pipeline"})
        /\ pre_result'.options.encoding_method \notin {"label", "onehot"})
       => pre_result'.status = "raise"]_vars

(***************************************************************************)
(* Claims about sequences of calls, checked under SpecSeq.                 *)
(***************************************************************************)
\* C18: the encoder and imputer registries of an instance only grow: a
\* column name that is a key of encoders or imputers is still a key after
\* every later step, whether the call returns or raises.
C18_RegistriesOnlyGrow ==
    [][/\ DOMAIN encoders \subseteq DOMAIN encoders'
       /\ DOMAIN imputers \subseteq DOMAIN imputers']_vars

\* C18 witness: after the second call the registries hold a transformer
\* fitted by the first call next to one fitted by the second.
C18_Witness ==
    /\ calls = 2
    /\ \E x, y \in DOMAIN encoders : encoders[x].call = 1 /\ encoders[y].call = 2
    /\ \E x \in DOMAIN imputers : imputers[x].call = 1

\* what a caller reads in r['encoders_used'] and r['scalers_used'] of a
\* dict r it was handed by an earlier call
EncodersSeenThrough(r) ==
    IF r.encoders_used = "encoders" THEN encoders ELSE r.encoders_copy

ScalersSeenThrough(r) ==
    IF r.scalers_used = "scalers" THEN scalers ELSE r.scalers_copy

\* C27: encoders_used and scalers_used of a returned dict are the live
\* registries of the instance: through every dict a caller holds it reads
\* the present registries, so after a later call that returned it sees the
\* encoders that call added and, under 'numeric_features', the scaler that
\* call fitted.
C27_LiveRegistries ==
    \A i \in DOMAIN held :
        /\ EncodersSeenThrough(held[i]) = encoders
        /\ ScalersSeenThrough(held[i]) = scalers
        /\ result.status = "ok" =>
              \A k \in DOMAIN result.preprocessing_steps :
                  LET step == result.preprocessing_steps[k]
                  IN  /\ step.stage = 3 =>
                            /\ step.column \in DOMAIN EncodersSeenThrough(held[i])
                            /\ EncodersSeenThrough(held[i])[step.column].call = calls
                      /\ step.stage = 4 =>
                            ScalersSeenThrough(held[i])["numeric_features"].call = calls

\* C27 witness: the first call fitted a scaler and no encoder for b; the
\* second call returned too, and through the dict of the first call the
\* caller sees the encoder of b and the scaler, both fitted by the second.
C27_Witness ==
    /\ Len(held) = 2
    /\ calls = 2
    /\ \E k \in DOMAIN held[1].preprocessing_steps : held[1].preprocessing_steps[k].stage = 4
    /\ \A k \in DOMAIN held[1].preprocessing_steps : held[1].preprocessing_steps[k].column # "b"
    /\ "b" \in DOMAIN EncodersSeenThrough(held[1])
    /\ EncodersSeenThrough(held[1])["b"].call = 2
    /\ ScalersSeenThrough(held[1])["numeric_features"].call = 2

(***************************************************************************)
(* Claims about the SegmentedForecaster, checked under SpecFc.             *)
(***************************************************************************)
\* the last call on the forecaster was `op` and it returned
FcReturned(op) == fc_result.status = "ok" /\ fc_result.op = op

\* the segments of the table of the last call, when it was segmented
SegmentsOfCall ==
    IF /\ result.status = "ok"
       /\ args.segmentation_column # "None"
       /\ result.segmentation_info # NoSegmentation
    THEN {result.segmentation_info.segments[k] :
             k \in DOMAIN result.segmentation_info.segments}
    ELSE {}

\* C26: a segment with at most 10 training rows falls back to the global
\* model: fit_models completes without a model for it, and a forecast that
\* returns afterwards has a forecast for every segment of its table, made
\* by the global model where the segment has no model of its own.
C26_FallbackForecast ==
    FcReturned("forecast") =>
        \A segment \in SegmentsOfCall :
            /\ segment \in DOMAIN fc_result.value.segmented_forecasts
            /\ segment \notin DOMAIN forecaster.segment_models =>
                  fc_result.value.segmented_forecasts[segment].model = forecaster.global_model

\* this step is a call of `op` on the forecaster that returns
FcCallReturns(op) ==
    /\ calls' = calls + 1
    /\ fc_result'.status = "ok"
    /\ fc_result'.op = op

\* the segments of the table of the call of this step that have rows in
\* the prepared table
SegmentsWithRows ==
    IF /\ result'.status = "ok"
       /\ args'.segmentation_column # "None"
       /\ result'.segmentation_info # NoSegmentation
    THEN {segment \in {result'.segmentation_info.segments[k] :
                          k \in DOMAIN result'.segmentation_info.segments} :
             NRowsOf(SegmentRows(result'.processed_data, args'.segmentation_column,
                                 segment)) > 0}
    ELSE {}

\* C28: segment_models is never cleared.  No call on the forecaster removes
\* a segment model; segments_trained returned by a fit_models call contains
\* every segment that had a model before the call; and a forecast that
\* returns has, for every segment of its table with a model, the forecast
\* of the model stored under that name.
C28_SegmentModelsKept ==
    [][/\ DOMAIN forecaster.segment_models \subseteq DOMAIN forecaster'.segment_models
       /\ FcCallReturns("fit_models") =>
             DOMAIN forecaster.segment_models \subseteq fc_result'.value.segments_trained
       /\ FcCallReturns("forecast") =>
             \A segment \in SegmentsWithRows \cap DOMAIN forecaster.segment_models :
                /\ segment \in DOMAIN fc_result'.value.segmented_forecasts
                /\ fc_result'.value.segmented_forecasts[segment].model =
                      forecaster.segment_models[segment]]_vars

\* the rows of the segmentation column "s" of the table of the last call,
\* where the prepared table still has the column
SegmentCells ==
    IF HasCol(result.processed_data, "s") THEN GetCol(result.processed_data, "s").vals
    ELSE <<>>

\* C28 witness: the second fit_models call returns segments_trained with a
\* segment whose model the first call fitted and which no row of the
\* second table belongs to.
C28_Witness ==
    /\ calls = 2
    /\ FcReturned("fit_models")
    /\ \E segment \in fc_result.value.segments_trained :
          /\ forecaster.segment_models[segment].call = 1
          /\ \A row \in DOMAIN SegmentCells : SegmentCells[row] # segment

\* a forecast of the second call made by a segment model of the first call,
\* for a table that is not the table of the first call
EarlierModelForecasts ==
    /\ calls = 2
    /\ FcReturned("forecast")
    /\ \E segment \in DOMAIN fc_result.value.segmented_forecasts :
          /\ fc_result.value.segmented_forecasts[segment].model.call = 1
          /\ fc_result.value.segmented_forecasts[segment].model.rows
                > NRowsOf(result.processed_data)

\* the forecast f has N entries numbered 1..N in order, each the prediction
\* of its model for the last feature row of the table t, and the trend
\* 'decreasing'
ConstantForecast(f, t, N) ==
    /\ Len(f.forecasts) = N
    /\ \A i \in DOMAIN f.forecasts :
          /\ f.forecasts[i].period = i
          /\ f.forecasts[i].predicted_value =
                Predict(f.model, LastRow(t, result.feature_columns))
          /\ f.forecasts[i].predicted_value = f.forecasts[1].predicted_value
    /\ f.summary.trend = "decreasing"

\* C29: a forecast for N periods that returns has N >= 1; the global
\* forecast and every segment forecast in it have N entries numbered 1..N
\* in order, each the prediction of its model for the last feature row of
\* its table, so all predicted values are the same and the trend is
\* 'decreasing'.
C29_ConstantForecast ==
    FcReturned("forecast") =>
        LET N == fc_result.value.forecast_metadata.forecast_periods
        IN  /\ N >= 1
            /\ ConstantForecast(fc_result.value.global_forecast, result.processed_data, N)
            /\ \A segment \in DOMAIN fc_result.value.segmented_forecasts :
                  ConstantForecast(fc_result.value.segmented_forecasts[segment],
                                   SegmentRows(result.processed_data,
                                               args.segmentation_column, segment),
                                   N)

\* C29 witness: a forecast for two periods returned with the global
\* forecast and the forecast of a segment.
C29_Witness ==
    /\ FcReturned("forecast")
    /\ fc_result.value.forecast_metadata.forecast_periods = 2
    /\ Len(fc_result.value.global_forecast.forecasts) = 2
    /\ \E segment \in DOMAIN fc_result.value.segmented_forecasts :
          Len(fc_result.value.segmented_forecasts[segment].forecasts) = 2

\* the last call on the forecaster gave a forecast report (a dict, not the
\* message that there is no forecast yet)
ReportGiven ==
    /\ FcReturned("generate_forecast_report")
    /\ fc_result.value.message = "None"

\* C30: column_info and transformation_log of the analyzer are empty after
\* every sequence of analyze_dataset calls and of prepare_for_modeling
\* calls (made by fit_models and forecast), so get_feature_importance
\* returns the empty list and a forecast report has empty preprocessing
\* steps and an empty feature importance.
C30_NothingRecorded ==
    /\ column_info = EmptyRegistry
    /\ transformation_log = <<>>
    /\ FcReturned("get_feature_importance") => fc_result.value = <<>>
    /\ ReportGiven =>
          /\ fc_result.value.technical_details.preprocessing_steps = <<>>
          /\ fc_result.value.technical_details.feature_importance = <<>>

\* C30 witness: a random forest was fitted, a forecast made, the table
\* analysed, and the forecast report then given.
C30_Witness ==
    /\ ReportGiven
    /\ report.status = "ok"
    /\ calls = 2
    /\ forecaster.global_model.kind = "RandomForestRegressor"
    /\ forecaster.global_model.fitted

\* get_feature_importance was asked of a fitted random forest after an
\* analysis of the table
ImportanceOfFittedForest ==
    /\ FcReturned("get_feature_importance")
    /\ report.status = "ok"
    /\ forecaster.global_model.kind = "RandomForestRegressor"
    /\ forecaster.global_model.fitted

====
